---- MODULE Spec2Model ----
(***************************************************************************)
(* Model of the resumable multi-stage pipeline of the repository: the      *)
(* three run coordinators (main.py, run_0_1_to_0_8.py, web_api.py), the    *)
(* one-shot script run_full_0_to_0_8.py, the artifact manifest and the     *)
(* validity scans they share, and the execution contract of the eight      *)
(* stages in new_pipeline/steps (worker pool, short-circuit, dependency    *)
(* checks, what each stage writes).                                        *)
(*                                                                         *)
(* Storage is abstracted to the content class of every file the            *)
(* coordinators or the stages read:                                        *)
(*   "absent"                      the path does not exist                 *)
(*   JSON files:  "unparsable"     json.load raises                        *)
(*                "empty"          parses to a falsy value ({} / [])       *)
(*                "stub"           a non-empty document without payload,   *)
(*                                 e.g. {"dialogue_turns": []}             *)
(*                "doc"            a document with payload                 *)
(*   text files:  "t0", "t40", "t150"   a file of 0, 40, 150 bytes         *)
(* Every episode directory is assumed to carry its upload marker, so       *)
(* get_episode_list returns all units, sorted.                             *)
(***************************************************************************)
EXTENDS Naturals, Sequences, FiniteSets, TLC

\* ------------------------------------------------------------- bounds
NumUnits == 2
MaxFaults == 1
ConfiguredWorkers == 1
NumRequests == 3
MaxUsage == 2

\* ------------------------------------------------------------- program constants
NumSteps == 8
DefaultWorkers01 == 8
SizeFloor == 100
max_retries == 3
retry_delay == 2

Units == 1..NumUnits
StepIds == 1..NumSteps

\* get_episode_list: the sorted list of unit ids
RECURSIVE UpTo(_)
UpTo(n) == IF n = 0 THEN <<>> ELSE Append(UpTo(n - 1), n)
get_episode_list == UpTo(NumUnits)

\* STEPS: the stage names in sequence order; a start_step outside the table is
\* written "bad"
STEPS == <<"0.1", "0.2", "0.3", "0.4", "0.5", "0.6", "0.7", "0.8">>
StepNames == {STEPS[i] : i \in StepIds}
StepIndex(name) == IF name \in StepNames THEN CHOOSE i \in StepIds : STEPS[i] = name ELSE 0

\* EXPECTED_FILES: the artifact manifest of the coordinators
EXPECTED_FILES ==
  [s \in StepIds |->
     CASE s = 1 -> <<"0_1_timed_dialogue.srt">>
       [] s = 2 -> <<"0_2_clues.json">>
       [] s = 3 -> <<"global_character_graph_llm.json">>
       [] s = 4 -> <<"0_4_calibrated_dialogue.txt">>
       [] s = 5 -> <<"0_5_dialogue_turns.json">>
       [] s = 6 -> <<"0_6_script_flow.json", "0_6_script_draft.md">>
       [] s = 7 -> <<"0_7_script.stmf", "0_7_script_analysis.json">>
       [] s = 8 -> <<"0_8_complete_screenplay.fountain", "0_8_complete_screenplay.fdx">>]

\* expected_files of check_file_integrity in run_0_1_to_0_8.py: stage 0.4 also
\* lists the debug draft
IntegrityFilesCli ==
  [s \in StepIds |->
     IF s = 4 THEN <<"0_4_calibrated_dialogue.txt", "0_4_dialogue_draft.txt">>
     ELSE EXPECTED_FILES[s]]

UnitFileNames ==
  {"0_1_dialogue_detailed.json", "0_1_timed_dialogue.srt", "0_2_clues.json",
   "0_4_calibrated_dialogue.txt", "0_4_dialogue_draft.txt",
   "0_5_dialogue_turns.json", "0_6_script_flow.json", "0_6_script_draft.md",
   "0_7_script.stmf", "0_7_script_analysis.json"}
GlobalFileNames ==
  {"0_3_preprocessed_data.json", "global_character_graph_llm.json",
   "0_8_merged_script.stmf", "0_8_complete_screenplay.fountain",
   "0_8_complete_screenplay.fdx"}

\* filename.endswith('.json')
JsonFileNames ==
  {"0_1_dialogue_detailed.json", "0_2_clues.json", "0_5_dialogue_turns.json",
   "0_6_script_flow.json", "0_7_script_analysis.json",
   "0_3_preprocessed_data.json", "global_character_graph_llm.json"}

JsonContents == {"unparsable", "empty", "stub", "doc"}
TextContents == {"t0", "t40", "t150"}
ContentsOf(name) ==
  {"absent"} \cup (IF name \in JsonFileNames THEN JsonContents ELSE TextContents)

\* os.path.getsize
getsize(c) ==
  CASE c = "t0" -> 0 [] c = "t40" -> 40 [] c = "t99" -> 99 [] c = "t100" -> 100
    [] c = "t150" -> 150 [] OTHER -> 0
\* os.path.exists
exists(c) == c # "absent"

\* the path a coordinator resolves for (step, episode, filename): stages 0.3 and
\* 0.8 resolve to one project-level file whatever the episode
IsGlobalStep(s) == s \in {3, 8}
ReadFile(f, g, s, u, name) == IF IsGlobalStep(s) THEN g[name] ELSE f[u][name]

\* ------------------------------------------------------------- validity scans
\* (mutation of FileInvalid: a text file of exactly the floor size is too small)
FileInvalid_inclusive(s, name, c) ==
  IF ~exists(c) THEN TRUE
  ELSE IF name \in JsonFileNames
       THEN IF c = "unparsable" THEN TRUE
            ELSE IF s = 5 THEN c # "doc"
            ELSE c = "empty"
       ELSE getsize(c) <= SizeFloor

\* check_invalid_files, body of the inner loop: TRUE iff the file makes the
\* episode invalid
FileInvalid(s, name, c) ==
  IF ~exists(c) THEN TRUE
  ELSE IF name \in JsonFileNames
       THEN IF c = "unparsable" THEN TRUE            \* except Exception
            ELSE IF s = 5 THEN c # "doc"             \* no dialogue_turns/turns/dialogues
            ELSE c = "empty"                         \* not data
       ELSE getsize(c) < SizeFloor

\* (mutation of ScanFiles: the inner loop has no break)
RECURSIVE ScanFiles_no_break(_, _, _, _, _)
ScanFiles_no_break(f, g, s, u, k) ==
  IF k > Len(EXPECTED_FILES[s]) THEN <<>>
  ELSE (IF FileInvalid(s, EXPECTED_FILES[s][k], ReadFile(f, g, s, u, EXPECTED_FILES[s][k]))
        THEN <<u>> ELSE <<>>) \o ScanFiles_no_break(f, g, s, u, k + 1)

\* the inner for-loop over required_files, from file k on: the list of ids it
\* appends (it breaks at the first failing file)
RECURSIVE ScanFiles(_, _, _, _, _)
ScanFiles(f, g, s, u, k) ==
  IF k > Len(EXPECTED_FILES[s]) THEN <<>>
  ELSE IF FileInvalid(s, EXPECTED_FILES[s][k], ReadFile(f, g, s, u, EXPECTED_FILES[s][k]))
       THEN <<u>>
       ELSE ScanFiles(f, g, s, u, k + 1)

\* the outer for-loop over episodes, from position i on
RECURSIVE ScanEpisodes(_, _, _, _)
ScanEpisodes(f, g, s, i) ==
  IF i > Len(get_episode_list) THEN <<>>
  ELSE ScanFiles(f, g, s, get_episode_list[i], 1) \o ScanEpisodes(f, g, s, i + 1)

check_invalid_files(f, g, step_name) ==
  IF step_name \notin StepNames THEN <<>>
  ELSE ScanEpisodes(f, g, StepIndex(step_name), 1)

\* check_file_integrity, per file: missing, unparsable JSON or an empty text file
FileBroken(name, c) ==
  IF ~exists(c) THEN TRUE
  ELSE IF name \in JsonFileNames THEN c = "unparsable"
       ELSE getsize(c) = 0

\* check_file_integrity of run_0_1_to_0_8.py (cli) and web_api.py (web)
check_file_integrity(ent, f, g, s) ==
  LET req == IF ent = "cli" THEN IntegrityFilesCli[s] ELSE EXPECTED_FILES[s]
  IN \A u \in Units : \A k \in 1..Len(req) :
        ~FileBroken(req[k], ReadFile(f, g, s, u, req[k]))

\* (mutation of _fail: no status counts as a failure)
_fail_never(status) == FALSE

\* _fail: every stage from 0.1 to 0.8 takes the first branch
_fail(status) == status # "completed" /\ status # "already_exists"


\* ------------------------------------------------------------- stage collaborators
\* The external model call behind a unit's work is the only nondeterminism of a
\* stage. Its outcomes, per stage:
\*   "usable"     a response the stage accepts
\*   "short"      (0.1) an accepted transcript of fewer than 100 bytes
\*   "exhausted"  (0.1, 0.2, 0.3) every retry and fallback attempt failed and the
\*                stage goes on with its empty default result
\*   "failed"     (0.5, 0.6, 0.7, 0.8) the stage's own try/except returns failed
\*   "raise"      (0.1, 0.2) an exception leaves _run_single_episode
ExtOutcomes(s) ==
  CASE s = 1 -> {"usable", "short", "exhausted", "raise"}
    [] s = 2 -> {"usable", "exhausted", "raise"}
    [] s = 3 -> {"usable", "exhausted"}
    [] s = 4 -> {"usable"}
    [] s \in {5, 6, 7, 8} -> {"usable", "failed"}

Done(row, st, err) == [row |-> row, status |-> st, error |-> err, raised |-> FALSE]

\* the "already has output, skip" test at the head of each _run_single_episode
ShortCircuits(s, row, en) ==
  /\ "FORCE_OVERWRITE" \notin en
  /\ CASE s = 1 -> exists(row["0_1_dialogue_detailed.json"])
       [] s = 2 -> exists(row["0_2_clues.json"])
       [] s = 4 -> exists(row["0_4_calibrated_dialogue.txt"])
       [] s = 5 -> exists(row["0_5_dialogue_turns.json"])
       [] s = 6 -> exists(row["0_6_script_flow.json"]) /\ exists(row["0_6_script_draft.md"])
       [] s = 7 -> exists(row["0_7_script.stmf"]) /\ exists(row["0_7_script_analysis.json"])

\* the input checks that make a unit return failed before any external call
\* (the legacy 0_1_timed_dialogue.txt is never present; 0.7 has no such check)
InputsUsable(s, row) ==
  CASE s = 1 -> TRUE
    [] s = 2 -> exists(row["0_1_timed_dialogue.srt"])
    [] s = 4 -> exists(row["0_1_timed_dialogue.srt"])
    [] s = 5 -> exists(row["0_4_calibrated_dialogue.txt"])
                /\ getsize(row["0_4_calibrated_dialogue.txt"]) > 0
    [] s = 6 -> row["0_5_dialogue_turns.json"] = "doc"
    [] s = 7 -> TRUE

\* what a unit's successful work writes
Step0_1_write(row, o) ==
  [row EXCEPT !["0_1_dialogue_detailed.json"] = IF o = "exhausted" THEN "empty" ELSE "doc",
              !["0_1_timed_dialogue.srt"] =
                 CASE o = "exhausted" -> "t0" [] o = "short" -> "t40" [] OTHER -> "t150"]
Step0_4_write(row, en) ==
  [row EXCEPT !["0_4_calibrated_dialogue.txt"] = row["0_1_timed_dialogue.srt"],
              !["0_4_dialogue_draft.txt"] =
                 IF "DEBUG_DRAFT" \in en THEN row["0_1_timed_dialogue.srt"] ELSE @]

\* _run_single_episode of stage s on the unit's files `row` when the external
\* call ends in o
run_single_episode(s, row, en, o) ==
  IF ShortCircuits(s, row, en) THEN Done(row, "already_exists", FALSE)
  ELSE IF ~InputsUsable(s, row) THEN Done(row, "failed", TRUE)
  ELSE IF o = "raise" THEN [row |-> row, status |-> "failed", error |-> TRUE, raised |-> TRUE]
  ELSE IF o = "failed" THEN Done(row, "failed", TRUE)
  ELSE CASE s = 1 -> Done(Step0_1_write(row, o), "success", FALSE)
         [] s = 2 -> Done([row EXCEPT !["0_2_clues.json"] =
                                  IF o = "exhausted" THEN "stub" ELSE "doc"],
                          "success", FALSE)
         [] s = 4 -> Done(Step0_4_write(row, en), "completed", FALSE)
         [] s = 5 -> Done([row EXCEPT !["0_5_dialogue_turns.json"] = "doc"], "success", FALSE)
         [] s = 6 -> Done([row EXCEPT !["0_6_script_flow.json"] = "doc",
                                      !["0_6_script_draft.md"] = "t150"], "success", FALSE)
         [] s = 7 -> Done([row EXCEPT !["0_7_script.stmf"] = "t150",
                                      !["0_7_script_analysis.json"] = "doc"], "success", FALSE)

\* TRUE iff the unit's work reaches the external call
CallsModel(s, row, en) == ~ShortCircuits(s, row, en) /\ InputsUsable(s, row)

\* files a unit's work may write
StageOutputs(s) ==
  CASE s = 1 -> {"0_1_dialogue_detailed.json", "0_1_timed_dialogue.srt"}
    [] s = 2 -> {"0_2_clues.json"}
    [] s = 4 -> {"0_4_calibrated_dialogue.txt", "0_4_dialogue_draft.txt"}
    [] s = 5 -> {"0_5_dialogue_turns.json"}
    [] s = 6 -> {"0_6_script_flow.json", "0_6_script_draft.md"}
    [] s = 7 -> {"0_7_script.stmf", "0_7_script_analysis.json"}

\* the entry the executor appends to `results` for a unit: the except branch
\* always names the episode, the normal branch only where the stage sets
\* result["episode_id"]
SetsEpisodeId(s) == s \in {1, 2, 4, 5}
ResultEntry(s, u, r) ==
  [unit |-> u,
   has_episode_id |-> r.raised \/ SetsEpisodeId(s),
   status |-> r.status,
   error |-> r.error]

\* max_workers of a pooled stage: 0.1 reads an attribute PipelineConfig does not
\* have; the others take the configured value with a floor of 1
PoolSize(s) ==
  IF s = 1 THEN DefaultWorkers01
  ELSE IF ConfiguredWorkers < 1 THEN 1 ELSE ConfiguredWorkers

PooledSteps == {1, 4, 5, 6, 7}

\* Step0_3GlobalAlignmentLLM.run on the project files g
Step0_3_run(f, g, o) ==
  LET pre == IF exists(g["0_3_preprocessed_data.json"]) THEN g["0_3_preprocessed_data.json"]
             ELSE IF \E u \in Units : f[u]["0_2_clues.json"] \in {"empty", "stub", "doc"}
                  THEN "doc" ELSE "stub"
      g1 == [g EXCEPT !["0_3_preprocessed_data.json"] = pre]
  IN IF pre = "unparsable" THEN [g |-> g1, status |-> "raised"]
     ELSE [g |-> [g1 EXCEPT !["global_character_graph_llm.json"] =
                      IF o = "exhausted" THEN "stub" ELSE "doc"],
           status |-> "completed"]

\* Step0_8FinalScript._run_merge_and_convert
Step0_8_run(f, g, en, o) ==
  IF /\ "FORCE_OVERWRITE" \notin en
     /\ \A n \in {"0_8_merged_script.stmf", "0_8_complete_screenplay.fountain",
                  "0_8_complete_screenplay.fdx"} : exists(g[n])
  THEN [g |-> g, status |-> "already_exists"]
  ELSE IF \A u \in Units : ~exists(f[u]["0_7_script.stmf"])
  THEN [g |-> g, status |-> "no_files"]
  ELSE IF \/ \A u \in Units : getsize(f[u]["0_7_script.stmf"]) = 0
          \/ o = "failed"
  THEN [g |-> g, status |-> "failed"]
  ELSE [g |-> [g EXCEPT !["0_8_merged_script.stmf"] = "t150",
                        !["0_8_complete_screenplay.fountain"] = "t150",
                        !["0_8_complete_screenplay.fdx"] = "t150"],
        status |-> "completed"]

\* TRUE iff the project-level stage reaches its external call / conversion
GlobalCalls(s, f, g, en) ==
  IF s = 3 THEN Step0_3_run(f, g, "usable").status = "completed"
  ELSE Step0_8_run(f, g, en, "usable").status = "completed"

\* ------------------------------------------------------------- deletion
\* (mutation of Targets: the subset is ignored)
Targets_all(te) == Units

\* delete_step_files of main.py and web_api.py: the files of step_name and of
\* every later stage, for target_episodes or, when that is empty, all episodes
Targets(te) == IF te = <<>> THEN Units ELSE {te[i] : i \in 1..Len(te)}
FilesFrom(first, last) ==
  UNION {{EXPECTED_FILES[s][k] : k \in 1..Len(EXPECTED_FILES[s])} : s \in first..last}
UnitFilesFrom(first, last) == FilesFrom(first, last) \cap UnitFileNames
GlobalFilesFrom(first, last) ==
  UNION {{EXPECTED_FILES[s][k] : k \in 1..Len(EXPECTED_FILES[s])} :
            s \in {t \in first..last : IsGlobalStep(t)}}

\* (mutation of remove: the first failure ends the deletion, nothing goes)
remove_aborting(path, c, keep) == IF keep = {} THEN "absent" ELSE c

\* os.remove inside try/except: the file goes unless removing it raises, and a
\* failure is logged and passed over
remove(path, c, keep) == IF path \in keep THEN c ELSE "absent"

delete_step_files_cascade(f, g, step_name, te, keep) ==
  IF step_name \notin StepNames THEN [f |-> f, g |-> g]
  ELSE LET si == StepIndex(step_name) IN
       [f |-> [u \in Units |-> [n \in UnitFileNames |->
                  IF u \in Targets(te) /\ n \in UnitFilesFrom(si, NumSteps)
                  THEN remove(<<u, n>>, f[u][n], keep) ELSE f[u][n]]],
        g |-> [n \in GlobalFileNames |->
                  IF Targets(te) # {} /\ n \in GlobalFilesFrom(si, NumSteps)
                  THEN remove(<<0, n>>, g[n], keep) ELSE g[n]]]

\* delete_step_files of run_0_1_to_0_8.py: the files of step_name only
delete_step_files_single(f, g, step_name, te, keep) ==
  IF step_name \notin StepNames THEN [f |-> f, g |-> g]
  ELSE LET si == StepIndex(step_name) IN
       [f |-> [u \in Units |-> [n \in UnitFileNames |->
                  IF u \in Targets(te) /\ n \in UnitFilesFrom(si, si)
                  THEN remove(<<u, n>>, f[u][n], keep) ELSE f[u][n]]],
        g |-> [n \in GlobalFileNames |->
                  IF Targets(te) # {} /\ n \in GlobalFilesFrom(si, si)
                  THEN remove(<<0, n>>, g[n], keep) ELSE g[n]]]

delete_step_files(ent, f, g, step_name, te, keep) ==
  IF ent = "cli" THEN delete_step_files_single(f, g, step_name, te, keep)
  ELSE delete_step_files_cascade(f, g, step_name, te, keep)


\* ------------------------------------------------------------- state
VARIABLES
  entry,                  \* which coordinator serves the request
  mode,                   \* resume | force_rerun | fix_invalid
  start_step,             \* the requested start stage
  skip_integrity_check,   \* --skip-integrity-check / request.skip_integrity_check
  env,                    \* the environment flags that are set
  target_episodes,        \* the explicit or computed unit subset
  files,                  \* per-unit files: unit -> filename -> content
  gfiles,                 \* project-level files: filename -> content
  files0,                 \* history: files as they were when the request arrived
  gfiles0,                \* history: gfiles as they were when the request arrived
  pc,                     \* position of the coordinator
  idx,                    \* loop index i into STEPS (1-based)
  status,                 \* PIPELINE_STATES[collection]["status"] (main.py)
  current_step,           \* PIPELINE_STATES[collection]["current_step"]
  error,                  \* PIPELINE_STATES[collection]["error"]
  response,               \* what the request returned: reply or exit code
  message,                \* the text that goes with the response
  ustate,                 \* the futures of each stage: stage -> unit ->
                          \*   idle | pending | running | done | failed
  results,                \* the `results` list of each stage
  stage_result,           \* per stage, the status step_instance.run() returned
  invoked,                \* history: the stages run() was called on, in order
  deleted,                \* history: paths removed by the coordinator
  written,                \* history: paths written by the stages
  faults,                 \* external-call failures injected so far
  locked,                 \* the paths on which os.remove raises
  run_no,                 \* which request of the session this is: 1 or 2
  retry,                  \* the retry loop of one unit of stage 0.1 or 0.2:
                          \*   its stage, the model asked, the outcome and the
                          \*   sleep of each attempt, and what the unit returned
  prior,                  \* the cross-unit prior of stage 0.2: the units merged
                          \*   into 0_2_prior.json (file) and into the dict the
                          \*   stage holds (mem), the evidence_count of the
                          \*   characters each unit's clues name (evidence);
                          \*   history: the units processed in
                          \*   order, what each was given, who wrote the file
  server,                 \* main.py serving several POST /run of one collection:
                          \*   each request's handler and background task, and
                          \*   PIPELINE_STATES[collection]["status"]
  client                  \* the GenAIClient a stage shares among its workers:
                          \*   token_usage, each worker's place in
                          \*   generate_content; history: the usage of every
                          \*   response that came back

vars == <<entry, mode, start_step, skip_integrity_check, env, target_episodes,
          files, gfiles, files0, gfiles0, pc, idx, status, current_step, error, response, message,
          ustate, results, stage_result, invoked, deleted, written, faults,
          locked, run_no, retry, prior, server, client>>

request == <<entry, mode, start_step, skip_integrity_check, env, files0, gfiles0,
             locked, run_no, retry, server, client>>
runstate == <<status, current_step, error>>
executor == <<ustate, results, stage_result>>
storage == <<files, gfiles, deleted, written>>

InFlight(s) == {u \in Units : ustate[s][u] = "running"}
\* a future that holds its result: the unit's own terminal status, failed or not
Terminal == {"done", "failed"}

\* the paths on which two storages differ
ChangedUnitPaths(f1, f2) == {<<u, n>> \in Units \X UnitFileNames : f1[u][n] # f2[u][n]}
ChangedGlobalPaths(g1, g2) == {<<0, n>> : n \in {m \in GlobalFileNames : g1[m] # g2[m]}}

\* the outcomes the fault budget still allows
Allowed(s, calls) ==
  IF calls /\ faults < MaxFaults THEN ExtOutcomes(s) ELSE {"usable"}

\* ------------------------------------------------------------- initial storage
\* the stage that produces a file
StageOf(name) ==
  CASE name \in {"0_1_dialogue_detailed.json", "0_1_timed_dialogue.srt"} -> 1
    [] name = "0_2_clues.json" -> 2
    [] name \in {"0_3_preprocessed_data.json", "global_character_graph_llm.json"} -> 3
    [] name \in {"0_4_calibrated_dialogue.txt", "0_4_dialogue_draft.txt"} -> 4
    [] name = "0_5_dialogue_turns.json" -> 5
    [] name \in {"0_6_script_flow.json", "0_6_script_draft.md"} -> 6
    [] name \in {"0_7_script.stmf", "0_7_script_analysis.json"} -> 7
    [] OTHER -> 8

\* what a fault-free stage leaves in a file
Good(name) == IF name \in JsonFileNames THEN "doc" ELSE "t150"

\* the storage a fault-free run leaves when unit u has been taken through
\* stage lv[u] (the debug draft is not written by default)
UnitFilesAt(lv) ==
  [u \in Units |-> [n \in UnitFileNames |->
      IF StageOf(n) <= lv[u] /\ n # "0_4_dialogue_draft.txt" THEN Good(n) ELSE "absent"]]
GlobalFilesAt(gl) ==
  [n \in GlobalFileNames |-> IF StageOf(n) <= gl THEN Good(n) ELSE "absent"]
MinLevel(lv) == CHOOSE m \in 0..NumSteps :
                  /\ \E u \in Units : lv[u] = m
                  /\ \A u \in Units : lv[u] >= m

\* the POST /run requests of one collection that are followed
Requests == 1..NumRequests

\* no request has arrived; PIPELINE_STATES has no entry for the collection
NoServer == [handler |-> [r \in Requests |-> "none"],
             run |-> [r \in Requests |-> "none"],
             status |-> "absent"]

\* self.token_usage of a new GenAIClient; no worker is in generate_content
NoClient == [token_usage |-> [total_tokens |-> 0, call_count |-> 0],
             worker |-> [u \in Units |-> [at |-> "idle", usage |-> 0, reg |-> 0]],
             responses |-> <<>>]

\* no retry loop is being followed
NoRetry == [stage |-> 0, models |-> <<>>, outcomes |-> <<>>, sleeps |-> <<>>,
            status |-> "none", wrote |-> "absent", fallback |-> "none",
            error |-> "none"]
\* the prior an earlier run of stage 0.2 over the storage f has saved
PriorOf(f) ==
  [file |-> {u \in Units : f[u]["0_2_clues.json"] \in {"empty", "stub", "doc"}},
   evidence |-> [u \in Units |-> IF f[u]["0_2_clues.json"] = "doc" THEN 1 ELSE 0],
   mem |-> {}, order |-> <<>>, givens |-> <<>>, writers |-> {}]
NoFutures == [s \in StepIds |-> [u \in Units |-> "idle"]]
NoResults == [s \in StepIds |-> <<>>]
NoStageResult == [s \in StepIds |-> "none"]

\* everything but the request and the storage, as it is when a request arrives
InitRun ==
  /\ pc = "request"
  /\ idx = 0
  /\ status = "none"
  /\ current_step = "none"
  /\ error = "none"
  /\ response = "none"
  /\ message = "none"
  /\ ustate = NoFutures
  /\ results = NoResults
  /\ stage_result = NoStageResult
  /\ invoked = <<>>
  /\ deleted = {}
  /\ written = {}
  /\ faults = 0
  /\ run_no = 1
  /\ server = NoServer
  /\ client = NoClient
  /\ retry = NoRetry
  /\ prior = PriorOf(files)

\* ------------------------------------------------------------- coordinators
\* the request is answered without a run
Answer(resp, msg) ==
  /\ pc' = "done"
  /\ response' = resp
  /\ message' = msg
  /\ UNCHANGED <<idx, target_episodes, files, gfiles, deleted>>

\* (mutation of FailedOutcome: the except branch does not record the failure)
FailedOutcome_unrecorded(ent, st) == st

\* except Exception as e: PIPELINE_STATES[collection]["status"] = "failed"
\* (main.py alone keeps a run state)
FailedOutcome(ent, st) == IF ent = "main" THEN "failed" ELSE st

\* (mutation of DeletesFirst: every mode deletes)
DeletesFirst_always(md) == TRUE

\* if mode == "force_rerun": delete_step_files(...)
DeletesFirst(md) == md = "force_rerun"

\* the coordinator enters its stage loop at start_step, after deleting what
\* force_rerun asks for
EnterLoop(te) ==
  LET d == IF DeletesFirst(mode)
           THEN delete_step_files(entry, files, gfiles, start_step, te, locked)
           ELSE [f |-> files, g |-> gfiles]
  IN /\ target_episodes' = te
     /\ files' = d.f
     /\ gfiles' = d.g
     /\ deleted' = deleted \cup ChangedUnitPaths(files, d.f)
                           \cup ChangedGlobalPaths(gfiles, d.g)
     /\ idx' = StepIndex(start_step)
     /\ pc' = "loop"

\* (mutation of NothingToFix: the empty invalid set is not noticed)
NothingToFix_never(md, inv) == FALSE

\* mode == "fix_invalid" and not invalid_episodes
NothingToFix(md, inv) == md = "fix_invalid" /\ inv = <<>>

\* main.py, POST /run
start_pipeline ==
  /\ pc = "request"
  /\ entry = "main"
  /\ LET inv == check_invalid_files(files, gfiles, start_step) IN
     IF NothingToFix(mode, inv)
     THEN /\ response' = "skipped"
          /\ message' = "no_invalid_files"
          /\ pc' = "done"
          /\ UNCHANGED target_episodes
     ELSE /\ response' = "started"
          /\ message' = "none"
          /\ pc' = "queued"
          /\ target_episodes' = IF mode = "fix_invalid" THEN inv ELSE target_episodes
  /\ UNCHANGED <<request, prior, runstate, executor, storage, idx, invoked, faults>>

\* (mutation of run_pipeline: the run is not marked as running)
run_pipeline_unmarked ==
  /\ pc = "queued"
  /\ pc' = "setup"
  /\ UNCHANGED <<request, prior, target_episodes, executor, storage, idx, response,
                 message, invoked, faults, runstate>>

\* main.py, run_pipeline: the background task records that the run began
run_pipeline ==
  /\ pc = "queued"
  /\ status' = "running"
  /\ current_step' = "none"
  /\ error' = "none"
  /\ pc' = "setup"
  /\ UNCHANGED <<request, prior, target_episodes, executor, storage, idx, response,
                 message, invoked, faults>>

\* main.py, run_pipeline: start_index lookup and the force_rerun deletion
run_pipeline_setup ==
  /\ pc = "setup"
  /\ IF start_step \notin StepNames
     THEN /\ status' = FailedOutcome(entry, status)
          /\ error' = "invalid_start"
          /\ pc' = "done"
          /\ UNCHANGED <<idx, target_episodes, files, gfiles, deleted>>
     ELSE /\ EnterLoop(target_episodes)
          /\ UNCHANGED <<status, error>>
  /\ UNCHANGED <<request, prior, current_step, executor, written, response, message,
                 invoked, faults>>

\* run_0_1_to_0_8.py, main() up to its stage loop (command-line mode)
cli_main ==
  /\ pc = "request"
  /\ entry = "cli"
  /\ IF NothingToFix(mode, check_invalid_files(files, gfiles, start_step))
     THEN Answer("exit0", "no_invalid_files")
     ELSE IF start_step \notin StepNames
          THEN Answer("exit1", "invalid_start")
          ELSE EnterLoop(<<>>) /\ UNCHANGED <<response, message>>
  /\ UNCHANGED <<request, prior, runstate, executor, written, invoked, faults>>

\* web_api.py, POST /api/run, up to its stage loop
web_run_pipeline ==
  /\ pc = "request"
  /\ entry = "web"
  /\ LET inv == check_invalid_files(files, gfiles, start_step) IN
     IF start_step \notin StepNames
     THEN Answer("http400", "invalid_start")
     ELSE IF NothingToFix(mode, inv)
          THEN Answer("success", "no_invalid_files")
          ELSE /\ EnterLoop(IF mode = "fix_invalid" THEN inv ELSE target_episodes)
               /\ UNCHANGED <<response, message>>
  /\ UNCHANGED <<request, prior, runstate, executor, written, invoked, faults>>

\* Step0Upload.run with every episode already uploaded
Step0Upload_run == "completed"
\* _fail of run_full_0_to_0_8.py for step "0"
_fail0(st) == st # "success" /\ st # "completed" /\ st # "already_exists"

\* run_full_0_to_0_8.py, main() through Step0
full_main ==
  /\ pc = "request"
  /\ entry = "full"
  /\ IF _fail0(Step0Upload_run)
     THEN Answer("exit1", "stage_failed")
     ELSE /\ idx' = 1
          /\ pc' = "loop"
          /\ UNCHANGED <<response, message, target_episodes, files, gfiles, deleted>>
  /\ UNCHANGED <<request, prior, runstate, executor, written, invoked, faults>>

\* ------------------------------------------------------------- stages
\* the paths a unit's work wrote (the debug draft only under DEBUG_DRAFT)
Wrote(s, u, en, r) ==
  IF r.status \in {"success", "completed"}
  THEN {<<u, n>> : n \in {m \in StageOutputs(s) :
                            m = "0_4_dialogue_draft.txt" => "DEBUG_DRAFT" \in en}}
  ELSE {}

\* the paths a project-level stage wrote
GlobalWrote(s, g, r) ==
  IF s = 3
  THEN {<<0, n>> : n \in {m \in {"0_3_preprocessed_data.json"} : ~exists(g[m])}}
       \cup (IF r.status = "completed"
             THEN {<<0, "global_character_graph_llm.json">>} ELSE {})
  ELSE IF r.status = "completed"
       THEN {<<0, n>> : n \in {"0_8_merged_script.stmf",
                               "0_8_complete_screenplay.fountain",
                               "0_8_complete_screenplay.fdx"}}
       ELSE {}

\* prior = self._load_prior(): the saved prior, or the empty default
_load_prior(pr) == [pr EXCEPT !.mem = pr.file, !.order = <<>>, !.givens = <<>>]

\* unit u is handed the prior as it is; unless its work raised, _merge_prior
\* folds its clue file in (when it exists and parses): the unit joins the
\* sources and the evidence_count of the characters its clues name goes up by
\* one; _save_prior writes the file, on the thread `who`
PriorAfter(pr, u, r, who) ==
  LET given == [pr EXCEPT !.order = Append(@, u),
                          !.givens = Append(@, [mem |-> pr.mem, file |-> pr.file])]
      merged == IF r.row["0_2_clues.json"] \in {"empty", "stub", "doc"}
                THEN pr.mem \cup {u} ELSE pr.mem
      counted == IF r.row["0_2_clues.json"] = "doc"
                 THEN [pr.evidence EXCEPT ![u] = @ + 1] ELSE pr.evidence
  IN IF r.raised THEN given
     ELSE [given EXCEPT !.mem = merged, !.file = merged, !.evidence = counted,
                        !.writers = @ \cup {who}]

\* (mutation of NextInOrder: any episode still to do may be taken)
NextInOrder_any(s, u) == TRUE

\* for episode_id in sorted(episodes): u is the next one
NextInOrder(s, u) == \A v \in Units : v < u => ustate[s][v] \in Terminal

\* (mutation of CurrentStepAt: the loop does not publish its stage)
CurrentStepAt_stale(ent, i, cur) == cur

\* PIPELINE_STATES[collection]["current_step"] = step_num (main.py only)
CurrentStepAt(ent, i, cur) == IF ent = "main" THEN STEPS[i] ELSE cur

\* run_step up to step_instance.run(), and the head of run(): the stage is
\* instantiated and called; a pooled stage submits one future per episode,
\* stage 0.4 first wants the character graph of stage 0.3
begin_stage ==
  /\ pc = "loop"
  /\ idx \in StepIds
  /\ invoked' = Append(invoked, idx)
  /\ current_step' = CurrentStepAt(entry, idx, current_step)
  /\ IF idx = 4 /\ ~exists(gfiles["global_character_graph_llm.json"])
     THEN /\ stage_result' = [stage_result EXCEPT ![idx] = "failed"]
          /\ pc' = "check"
          /\ UNCHANGED ustate
     ELSE IF idx = 4 /\ gfiles["global_character_graph_llm.json"] = "unparsable"
     THEN /\ stage_result' = [stage_result EXCEPT ![idx] = "raised"]
          /\ pc' = "check"
          /\ UNCHANGED ustate
     ELSE IF IsGlobalStep(idx)
     THEN /\ pc' = "global"
          /\ UNCHANGED <<ustate, stage_result>>
     ELSE /\ ustate' = [ustate EXCEPT ![idx] = [u \in Units |-> "pending"]]
          /\ pc' = IF idx \in PooledSteps THEN "pool" ELSE "serial"
          /\ UNCHANGED stage_result
  /\ prior' = IF idx = 2 THEN _load_prior(prior) ELSE prior
  /\ UNCHANGED <<request, target_episodes, storage, idx, status, error, response,
                 message, results, faults>>

\* (mutation of StartUnit: a worker is found whatever the pool size)
StartUnit_unbounded(s, u) ==
  /\ ustate[s][u] = "pending"
  /\ \A v \in Units : v < u => ustate[s][v] # "pending"
  /\ ustate' = [ustate EXCEPT ![s][u] = "running"]
  /\ UNCHANGED <<request, prior, target_episodes, storage, pc, idx, runstate, response,
                 message, results, stage_result, invoked, faults>>

\* a free pool worker takes the next future off the executor's FIFO work queue
StartUnit(s, u) ==
  /\ ustate[s][u] = "pending"
  /\ \A v \in Units : v < u => ustate[s][v] # "pending"
  /\ Cardinality(InFlight(s)) < PoolSize(s)
  /\ ustate' = [ustate EXCEPT ![s][u] = "running"]
  /\ UNCHANGED <<request, prior, target_episodes, storage, pc, idx, runstate, response,
                 message, results, stage_result, invoked, faults>>

\* the unit's work ends and as_completed hands its result to the stage
UnitEnds(s, u, o) ==
  LET r == run_single_episode(s, files[u], env, o) IN
  /\ files' = [files EXCEPT ![u] = r.row]
  /\ written' = written \cup Wrote(s, u, env, r)
  /\ results' = [results EXCEPT ![s] = Append(@, ResultEntry(s, u, r))]
  /\ ustate' = [ustate EXCEPT ![s][u] = IF r.status = "failed" THEN "failed" ELSE "done"]
  /\ faults' = IF o = "usable" THEN faults ELSE faults + 1
  /\ UNCHANGED <<request, target_episodes, gfiles, deleted, pc, idx, runstate,
                 response, message, stage_result, invoked>>

FinishUnit(s, u) ==
  /\ ustate[s][u] = "running"
  /\ \E o \in Allowed(s, CallsModel(s, files[u], env)) : UnitEnds(s, u, o)
  /\ UNCHANGED prior

\* stage 0.2: the for-loop processes the next episode on the caller's thread
SerialUnit ==
  /\ pc = "serial"
  /\ \E u \in Units :
       /\ ustate[idx][u] = "pending"
       /\ NextInOrder(idx, u)
       /\ \E o \in Allowed(idx, CallsModel(idx, files[u], env)) :
            /\ UnitEnds(idx, u, o)
            /\ prior' = PriorAfter(prior, u, run_single_episode(idx, files[u], env, o),
                                   "caller")

\* (mutation of PoolDrained: the stage returns on the first result)
PoolDrained_first(s) == \E u \in Units : ustate[s][u] \in Terminal

\* the as_completed loop has consumed every future and the
\* `with ThreadPoolExecutor` block has shut the pool down (wait=True)
PoolDrained(s) == \A u \in Units : ustate[s][u] \in Terminal

\* the pool (or the for-loop of 0.2) is left and _run_all_episodes returns its
\* summary, whose status is always "completed"
StageReturn ==
  /\ pc \in {"pool", "serial"}
  /\ PoolDrained(idx)
  /\ stage_result' = [stage_result EXCEPT ![idx] = "completed"]
  /\ pc' = "check"
  /\ UNCHANGED <<request, prior, target_episodes, storage, idx, runstate, response,
                 message, ustate, results, invoked, faults>>

\* stages 0.3 and 0.8 run on the caller's thread over the project files
GlobalStage ==
  /\ pc = "global"
  /\ \E o \in Allowed(idx, GlobalCalls(idx, files, gfiles, env)) :
       LET r == IF idx = 3 THEN Step0_3_run(files, gfiles, o)
                ELSE Step0_8_run(files, gfiles, env, o)
       IN /\ gfiles' = r.g
          /\ written' = written \cup GlobalWrote(idx, gfiles, r)
          /\ stage_result' = [stage_result EXCEPT ![idx] = r.status]
          /\ faults' = IF o = "usable" THEN faults ELSE faults + 1
  /\ pc' = "check"
  /\ UNCHANGED <<request, prior, target_episodes, files, deleted, idx, runstate, response,
                 message, ustate, results, invoked>>

\* ------------------------------------------------------------- after a stage
\* run_step after run() returned: _fail, then the integrity check of the
\* coordinators that have one
StepSucceeded ==
  /\ stage_result[idx] # "raised"
  /\ ~_fail(stage_result[idx])
  /\ (entry \in {"cli", "web"} /\ ~skip_integrity_check)
        => check_file_integrity(entry, files, gfiles, idx)

\* (mutation of NextIndex: the loop steps over a stage)
NextIndex_skipping(i) == i + 2

\* for i in range(start_index, len(STEPS)): the index after i
NextIndex(i) == i + 1

\* the error payload a failing stage hands to the coordinator: the "error" text
\* of its result (none with no_files), or the text of the exception that
\* run_step caught
StagePayload(s, st) ==
  CASE st = "raised" -> "exception_text"
    [] st = "failed" /\ s = 4 -> "graph_file_missing"
    [] st = "failed" -> "stage_error_text"
    [] OTHER -> "no_error_text"

\* str(e) of `raise Exception(f"Step {step_num} failed")`: a text made from the
\* stage number alone
StepFailedText(step_num) == "step_failed"

\* the rest of the loop body: stop on failure, else go to the next stage or
\* leave the loop
after_stage ==
  /\ pc = "check"
  /\ IF StepSucceeded
     THEN IF idx < NumSteps
          THEN /\ idx' = NextIndex(idx)
               /\ pc' = "loop"
               /\ UNCHANGED <<status, error, response, message>>
          ELSE /\ status' = IF entry = "main" THEN "completed" ELSE status
               /\ response' = IF entry = "full" THEN "exit0" ELSE response
               /\ message' = IF entry = "full" THEN "completed" ELSE message
               /\ pc' = IF entry = "full" THEN "done" ELSE "report"
               /\ UNCHANGED <<idx, error>>
     ELSE /\ status' = FailedOutcome(entry, status)
          /\ error' = IF entry = "main" THEN StepFailedText(STEPS[idx]) ELSE error
          /\ response' = CASE entry = "main" -> response
                           [] entry = "web" -> "failure"
                           [] OTHER -> "exit1"
          /\ message' = IF entry = "main" THEN message ELSE "stage_failed"
          /\ pc' = "done"
          /\ UNCHANGED idx
  /\ results' = [results EXCEPT ![idx] = <<>>]    \* step_result goes out of scope
  /\ UNCHANGED <<request, prior, target_episodes, ustate, stage_result, storage,
                 current_step, invoked, faults>>

\* (mutation of ReportOutcome: a report that cannot be written fails the run)
ReportOutcome_failing(outcome, ok) == IF ok THEN outcome ELSE "failed"

\* try: generate_report(...) except Exception: log: the outcome of the run is
\* what it was before the report was tried
ReportOutcome(outcome, ok) == outcome

\* the run report; a failure to write it is logged and changes nothing else
generate_report ==
  /\ pc = "report"
  /\ \E ok \in BOOLEAN :
       /\ message' = IF ok THEN "completed" ELSE "report_failed"
       /\ response' = ReportOutcome(CASE entry = "cli" -> "exit0"
                                      [] entry = "web" -> "success"
                                      [] OTHER -> response, ok)
       /\ status' = ReportOutcome(status, ok)
  /\ pc' = "done"
  /\ UNCHANGED <<request, prior, target_episodes, executor, storage, idx, current_step,
                 error, invoked, faults>>

\* ------------------------------------------------------------- requests
Envs == {{}, {"FORCE_OVERWRITE"}, {"DEBUG_DRAFT"}}
NoTargets == <<>>

\* a request in command-line/API form against the storage <<f, g>>
\* a request with an explicit unit subset te, on a storage where the paths lk
\* cannot be removed
InitRequestOn(ent, md, st, skip, en, f, g, te, lk) ==
  /\ entry = ent
  /\ mode = md
  /\ start_step = st
  /\ skip_integrity_check = skip
  /\ env = en
  /\ target_episodes = te
  /\ locked = lk
  /\ files = f
  /\ gfiles = g
  /\ files0 = f
  /\ gfiles0 = g
  /\ InitRun

InitRequest(ent, md, st, skip, en, f, g) ==
  InitRequestOn(ent, md, st, skip, en, f, g, NoTargets, {})

Level(k) == [u \in Units |-> k]
Before(st) == IF StepIndex(st) = 0 THEN 0 ELSE StepIndex(st) - 1
\* unit 1 is one stage ahead of the others
Ahead(st) == [u \in Units |-> IF u = 1 THEN Before(st) + 1 ELSE Before(st)]

\* the storages earlier fault-free runs can have left
CleanStorages(st) ==
  {[f |-> UnitFilesAt(lv), g |-> GlobalFilesAt(MinLevel(lv))] :
      lv \in {Level(0), Level(Before(st)), Ahead(st), Level(NumSteps)}}

\* a complete storage in which one artifact of stage s is missing or carries
\* other content: a crash, an exhausted call or a manual edit left it so
DamagedStorages(s) ==
  LET f0 == UnitFilesAt(Level(NumSteps))
      g0 == GlobalFilesAt(NumSteps)
  IN IF IsGlobalStep(s)
     THEN {[f |-> f0, g |-> [g0 EXCEPT ![n] = c]] :
              <<n, c>> \in {<<m, d>> \in GlobalFileNames \X (JsonContents \cup TextContents \cup {"absent"}) :
                              StageOf(m) = s /\ d \in ContentsOf(m) /\ d # Good(m)}}
     ELSE {[f |-> [f0 EXCEPT ![u][n] = c], g |-> g0] :
              <<u, n, c>> \in {<<v, m, d>> \in Units \X UnitFileNames \X (JsonContents \cup TextContents \cup {"absent"}) :
                              /\ StageOf(m) = s
                              /\ m # "0_4_dialogue_draft.txt"
                              /\ d \in ContentsOf(m)
                              /\ d # Good(m)}}

Storages(st) ==
  CleanStorages(st) \cup (IF st \in StepNames THEN DamagedStorages(StepIndex(st)) ELSE {})

Init ==
  \E ent \in {"main", "cli", "web", "full"} :
  \E md \in {"resume", "force_rerun", "fix_invalid"} :
  \E st \in StepNames \cup {"bad"} :
  \E skip \in BOOLEAN :
  \E en \in Envs :
  \E sto \in Storages(st) :
     /\ ent = "full" => (md = "resume" /\ st = "0.1" /\ sto \in CleanStorages(st))
     /\ skip => (ent \in {"cli", "web"} /\ md = "resume" /\ sto \in CleanStorages(st))
     /\ "DEBUG_DRAFT" \in en => (ent = "cli" /\ md = "resume")
     /\ "FORCE_OVERWRITE" \in en => (ent \in {"main", "cli"} /\ md # "force_rerun")
     /\ InitRequest(ent, md, st, skip, en, sto.f, sto.g)

\* every content the required files of stage s can have, unit by unit (or for
\* the project), in an otherwise complete storage
ManifestNames(s) == {EXPECTED_FILES[s][k] : k \in 1..Len(EXPECTED_FILES[s])}
RowChoices(s) ==
  {r \in [ManifestNames(s) -> JsonContents \cup TextContents \cup {"absent"}] :
      \A n \in ManifestNames(s) : r[n] \in ContentsOf(n)}
ScannedStorages(s) ==
  LET f0 == UnitFilesAt(Level(NumSteps))
      g0 == GlobalFilesAt(NumSteps)
  IN IF IsGlobalStep(s)
     THEN {[f |-> f0,
            g |-> [n \in GlobalFileNames |-> IF n \in ManifestNames(s) THEN r[n] ELSE g0[n]]] :
              r \in RowChoices(s)}
     ELSE {[f |-> [u \in Units |-> [n \in UnitFileNames |->
                     IF n \in ManifestNames(s) THEN ch[u][n] ELSE f0[u][n]]],
            g |-> g0] : ch \in [Units -> RowChoices(s)]}

\* a fix_invalid request to one of the two coordinators that keep the invalid
\* set, against any storage of the stage's required files
InitCheck ==
  \E ent \in {"main", "web"} :
  \E st \in StepNames :
  \E sto \in ScannedStorages(StepIndex(st)) :
     InitRequest(ent, "fix_invalid", st, FALSE, {}, sto.f, sto.g)

Pool ==
  \E s \in PooledSteps : \E u \in Units : StartUnit(s, u) \/ FinishUnit(s, u)

Next ==
  \/ start_pipeline
  \/ run_pipeline
  \/ run_pipeline_setup
  \/ cli_main
  \/ web_run_pipeline
  \/ full_main
  \/ begin_stage
  \/ Pool
  \/ SerialUnit
  \/ StageReturn
  \/ GlobalStage
  \/ after_stage
  \/ generate_report

Spec == Init /\ [][Next]_vars

\* the request handlers alone: the scan and what they answer
NextCheck ==
  \/ start_pipeline
  \/ web_run_pipeline

SpecCheck == InitCheck /\ [][NextCheck]_vars

\* ------------------------------------------------------------- a second run
\* the stages of the first run all succeeded
FirstRunCompleted ==
  /\ pc = "done"
  /\ IF entry = "main" THEN status = "completed"
     ELSE response \in {"exit0", "success"} /\ invoked # <<>>

\* the same request is made again, on the storage the first run left
second_request ==
  /\ run_no = 1
  /\ FirstRunCompleted
  /\ run_no' = 2
  /\ files0' = files
  /\ gfiles0' = gfiles
  /\ pc' = "request"
  /\ idx' = 0
  /\ response' = "none"
  /\ message' = "none"
  /\ target_episodes' = NoTargets
  /\ ustate' = NoFutures
  /\ results' = NoResults
  /\ stage_result' = NoStageResult
  /\ invoked' = <<>>
  /\ deleted' = {}
  /\ written' = {}
  /\ prior' = [prior EXCEPT !.order = <<>>, !.givens = <<>>, !.writers = {}]
  /\ UNCHANGED <<entry, mode, start_step, skip_integrity_check, env, locked,
                 retry, server, client, files, gfiles, runstate, faults>>

\* resume requests on a storage that is complete up to the start stage
InitTwice ==
  \E ent \in {"main", "cli", "web"} :
  \E st \in StepNames :
  \E sto \in {[f |-> UnitFilesAt(Level(k)), g |-> GlobalFilesAt(k)] :
                k \in {Before(st), NumSteps}} :
     InitRequest(ent, "resume", st, FALSE, {}, sto.f, sto.g)

NextTwice ==
  \/ start_pipeline
  \/ run_pipeline
  \/ run_pipeline_setup
  \/ cli_main
  \/ web_run_pipeline
  \/ begin_stage
  \/ Pool
  \/ SerialUnit
  \/ StageReturn
  \/ GlobalStage
  \/ after_stage
  \/ generate_report
  \/ second_request

SpecTwice == InitTwice /\ [][NextTwice]_vars

\* ------------------------------------------------------------- forced reruns
\* the explicit unit subsets a request can carry (none: all units)
Subsets == {NoTargets} \cup {<<u>> : u \in Units}

\* the declared artifacts of stage s as paths of unit 1 or of the project
StagePaths(s) ==
  {<<IF IsGlobalStep(s) THEN 0 ELSE 1, n>> : n \in ManifestNames(s)}

\* what cannot be removed: nothing, or one artifact of the start stage or of
\* the last stage
LockChoices(st) ==
  {{}} \cup {{p} : p \in StagePaths(StepIndex(st)) \cup StagePaths(NumSteps)}

\* requests of every mode on a complete storage; a forced rerun through
\* main.py or web_api.py can name a unit subset
InitForce ==
  \E ent \in {"main", "cli", "web"} :
  \E md \in {"resume", "force_rerun", "fix_invalid"} :
  \E st \in StepNames :
  \E te \in Subsets :
  \E lk \in LockChoices(st) :
     /\ te # NoTargets => (ent \in {"main", "web"} /\ md = "force_rerun")
     /\ lk # {} => md = "force_rerun"
     /\ InitRequestOn(ent, md, st, FALSE, {}, UnitFilesAt(Level(NumSteps)),
                      GlobalFilesAt(NumSteps), te, lk)

NextForce ==
  \/ start_pipeline
  \/ run_pipeline
  \/ run_pipeline_setup
  \/ cli_main
  \/ web_run_pipeline
  \/ begin_stage
  \/ Pool
  \/ SerialUnit
  \/ StageReturn
  \/ GlobalStage
  \/ after_stage
  \/ generate_report

SpecForce == InitForce /\ [][NextForce]_vars

\* ------------------------------------------------------------- stage verdicts
\* the statuses an aggregate result can carry ("missing": no status key)
AggregateStatuses ==
  {"success", "already_exists", "completed", "skipped", "failed", "no_files", "missing"}

\* run_step has just got `result` back from step_instance.run() of stage s, on
\* a complete storage; main.py has marked the run as running
InitVerdict ==
  \E ent \in {"main", "cli", "web", "full"} :
  \E s \in StepIds :
  \E st \in AggregateStatuses :
  \E skip \in BOOLEAN :
     /\ skip => ent \in {"cli", "web"}
     /\ entry = ent
     /\ mode = "resume"
     /\ start_step = IF ent = "full" THEN "0.1" ELSE STEPS[s]
     /\ skip_integrity_check = skip
     /\ env = {}
     /\ target_episodes = NoTargets
     /\ locked = {}
     /\ run_no = 1
     /\ server = NoServer
     /\ client = NoClient
     /\ retry = NoRetry
     /\ files = UnitFilesAt(Level(NumSteps))
     /\ gfiles = GlobalFilesAt(NumSteps)
     /\ prior = PriorOf(files)
     /\ files0 = files
     /\ gfiles0 = gfiles
     /\ pc = "check"
     /\ idx = s
     /\ status = IF ent = "main" THEN "running" ELSE "none"
     /\ current_step = IF ent = "main" THEN STEPS[s] ELSE "none"
     /\ error = "none"
     /\ response = IF ent = "main" THEN "started" ELSE "none"
     /\ message = "none"
     /\ ustate = NoFutures
     /\ results = NoResults
     /\ stage_result = [NoStageResult EXCEPT ![s] = st]
     /\ invoked = <<s>>
     /\ deleted = {}
     /\ written = {}
     /\ faults = 0

NextVerdict ==
  \/ after_stage
  \/ generate_report

SpecVerdict == InitVerdict /\ [][NextVerdict]_vars

\* ------------------------------------------------------------- one probed file
\* text sizes on either side of the floor, besides the usual contents
ProbeContents(name) ==
  ContentsOf(name) \cup (IF name \in JsonFileNames THEN {} ELSE {"t99", "t100"})

\* a complete storage in which one required file of stage s has content c: the
\* file of unit u, or the project-level file of a global stage
ProbedStorage(s, u, name, c) ==
  LET f0 == UnitFilesAt(Level(NumSteps))
      g0 == GlobalFilesAt(NumSteps)
  IN IF IsGlobalStep(s) THEN [f |-> f0, g |-> [g0 EXCEPT ![name] = c]]
     ELSE [f |-> [f0 EXCEPT ![u][name] = c], g |-> g0]

\* a fix_invalid request at a stage one of whose required files is probed
InitProbe ==
  \E ent \in {"main", "web"} :
  \E st \in StepNames :
  \E u \in Units :
  \E name \in ManifestNames(StepIndex(st)) :
  \E c \in ProbeContents(name) :
     LET sto == ProbedStorage(StepIndex(st), u, name, c)
     IN InitRequest(ent, "fix_invalid", st, FALSE, {}, sto.f, sto.g)

SpecProbe == InitProbe /\ [][NextCheck]_vars

\* ------------------------------------------------------------- the retry loop
\* model_list of stage s (0.1 and 0.2 order their fallbacks differently)
model_list(s) ==
  IF s = 1 THEN <<"gemini-2.5-flash", "gemini-2.5-pro", "gemini-2.0-flash">>
  ELSE <<"gemini-2.5-flash", "gemini-2.0-flash", "gemini-2.5-pro">>

\* for attempt in range(max_retries + 2)
MaxAttempts == max_retries + 2

\* model_name of the 0-based attempt
ModelFor(s, attempt) ==
  IF attempt < max_retries THEN model_list(s)[1]
  ELSE model_list(s)[attempt - max_retries + 2]


\* (mutation of Backoff: the delay grows with every attempt)
Backoff_unbounded(attempt) == IF attempt > 0 THEN retry_delay * attempt ELSE 0

\* time.sleep(retry_delay * min(attempt, 3)) before every attempt but the first
Backoff(attempt) == IF attempt > 0 THEN retry_delay * (IF attempt < 3 THEN attempt ELSE 3) ELSE 0

\* what one generate_content call can come to: a response the stage accepts,
\* a response it cannot use, an exception
CallOutcomes == {"usable", "unusable", "raise"}

\* the loop is over: a usable response (break) or the range is used up
LoopOver ==
  \/ Len(retry.outcomes) = MaxAttempts
  \/ Len(retry.outcomes) > 0 /\ retry.outcomes[Len(retry.outcomes)] = "usable"

\* one pass of the for-loop: sleep, call, look at the response
retry_attempt ==
  /\ retry.stage \in {1, 2}
  /\ retry.status = "none"
  /\ ~LoopOver
  /\ \E o \in CallOutcomes :
       LET attempt == Len(retry.outcomes) IN
       retry' = [retry EXCEPT !.models = Append(@, ModelFor(retry.stage, attempt)),
                              !.sleeps = Append(@, Backoff(attempt)),
                              !.outcomes = Append(@, o)]
  /\ UNCHANGED <<entry, mode, start_step, skip_integrity_check, env, files0, gfiles0,
                 locked, run_no, server, client, target_episodes, storage, executor, runstate, pc,
                 idx, response, message, invoked, faults, prior>>

\* after the loop: the result (the last response, or the empty default of the
\* last except branch) is saved and the unit returns
retry_return ==
  /\ retry.stage \in {1, 2}
  /\ retry.status = "none"
  /\ LoopOver
  /\ LET usable == retry.outcomes[Len(retry.outcomes)] = "usable" IN
     retry' = [retry EXCEPT !.status = "success",
                            !.wrote = IF usable THEN "doc"
                                      ELSE IF retry.stage = 1 THEN "empty" ELSE "stub"]
  /\ UNCHANGED <<entry, mode, start_step, skip_integrity_check, env, files0, gfiles0,
                 locked, run_no, server, client, target_episodes, storage, executor, runstate, pc,
                 idx, response, message, invoked, faults, prior>>

\* a unit of stage 0.1 or 0.2 has passed its short-circuit and input checks and
\* is about to enter its retry loop
InitRetry ==
  \E s \in {1, 2} :
     /\ entry = "cli"
     /\ mode = "resume"
     /\ start_step = STEPS[s]
     /\ skip_integrity_check = FALSE
     /\ env = {}
     /\ target_episodes = NoTargets
     /\ locked = {}
     /\ files = UnitFilesAt(Level(s - 1))
     /\ gfiles = GlobalFilesAt(s - 1)
     /\ prior = PriorOf(files)
     /\ files0 = files
     /\ gfiles0 = gfiles
     /\ pc = "request"
     /\ idx = 0
     /\ status = "none"
     /\ current_step = "none"
     /\ error = "none"
     /\ response = "none"
     /\ message = "none"
     /\ ustate = NoFutures
     /\ results = NoResults
     /\ stage_result = NoStageResult
     /\ invoked = <<>>
     /\ deleted = {}
     /\ written = {}
     /\ faults = 0
     /\ run_no = 1
     /\ server = NoServer
     /\ client = NoClient
     /\ retry = [NoRetry EXCEPT !.stage = s]

NextRetry ==
  \/ retry_attempt
  \/ retry_return

SpecRetry == InitRetry /\ [][NextRetry]_vars

\* ------------------------------------------------------------- stage 0.5
\* max_retries of _integrated_processing
integrated_max_retries == 3

\* a unit of stage 0.5 is past its short-circuit and input checks
Processing5 ==
  /\ retry.stage = 5
  /\ retry.status = "none"
  /\ ~ShortCircuits(5, files[1], env)
  /\ InputsUsable(5, files[1])

\* the head of _run_single_episode: the output is there, or the calibrated
\* dialogue is missing or empty
step5_head ==
  /\ retry.stage = 5
  /\ retry.status = "none"
  /\ ShortCircuits(5, files[1], env) \/ ~InputsUsable(5, files[1])
  /\ retry' = IF ShortCircuits(5, files[1], env)
              THEN [retry EXCEPT !.status = "already_exists"]
              ELSE [retry EXCEPT !.status = "failed",
                                 !.error = IF exists(files[1]["0_4_calibrated_dialogue.txt"])
                                           THEN "empty_input" ELSE "missing_input"]
  /\ UNCHANGED <<entry, mode, start_step, skip_integrity_check, env, files0, gfiles0,
                 locked, run_no, server, client, target_episodes, storage, executor, runstate, pc,
                 idx, response, message, invoked, faults, prior>>

\* except Exception as e: if attempt == max_retries - 1: raise e
LastRaiseLeaves(attempt, o) == o = "raise" /\ attempt = integrated_max_retries - 1

\* one pass of the loop of _integrated_processing; the exception of the last
\* pass leaves the function and _run_single_episode returns "Processing failed"
integrated_attempt ==
  /\ Processing5
  /\ retry.fallback = "none"
  /\ Len(retry.outcomes) < integrated_max_retries
  /\ Len(retry.outcomes) > 0 => retry.outcomes[Len(retry.outcomes)] # "usable"
  /\ \E o \in CallOutcomes :
       LET attempt == Len(retry.outcomes)
           tried == [retry EXCEPT !.models = Append(@, "gemini-2.5-pro"),
                                  !.sleeps = Append(@, 0),
                                  !.outcomes = Append(@, o)]
       IN retry' = IF LastRaiseLeaves(attempt, o)
                   THEN [tried EXCEPT !.status = "failed", !.error = "processing_failed"]
                   ELSE tried
  /\ UNCHANGED <<entry, mode, start_step, skip_integrity_check, env, files0, gfiles0,
                 locked, run_no, server, client, target_episodes, storage, executor, runstate, pc,
                 idx, response, message, invoked, faults, prior>>

\* _validate_output accepted a response: the result is saved
integrated_return ==
  /\ Processing5
  /\ Len(retry.outcomes) > 0
  /\ retry.outcomes[Len(retry.outcomes)] = "usable"
  /\ retry' = [retry EXCEPT !.status = "success", !.wrote = "doc"]
  /\ UNCHANGED <<entry, mode, start_step, skip_integrity_check, env, files0, gfiles0,
                 locked, run_no, server, client, target_episodes, storage, executor, runstate, pc,
                 idx, response, message, invoked, faults, prior>>

\* _integrated_processing returned None: _fallback_processing parses the
\* calibrated dialogue; its turns are saved, or the unit fails without them
fallback_processing ==
  /\ Processing5
  /\ retry.fallback = "none"
  /\ Len(retry.outcomes) = integrated_max_retries
  /\ retry.outcomes[Len(retry.outcomes)] # "usable"
  /\ \E turns \in BOOLEAN :
       retry' = IF turns
                THEN [retry EXCEPT !.fallback = "turns", !.status = "success",
                                   !.wrote = "doc"]
                ELSE [retry EXCEPT !.fallback = "no_turns", !.status = "failed",
                                   !.error = "both_failed"]
  /\ UNCHANGED <<entry, mode, start_step, skip_integrity_check, env, files0, gfiles0,
                 locked, run_no, server, client, target_episodes, storage, executor, runstate, pc,
                 idx, response, message, invoked, faults, prior>>

\* unit 1 of stage 0.5 is about to run: its calibrated dialogue is missing,
\* empty or there, its turns file is there or not, FORCE_OVERWRITE is set or not
InitFallback ==
  \E cal \in {"absent", "t0", "t40", "t150"} :
  \E out \in {"absent", "stub", "doc"} :
  \E en \in {{}, {"FORCE_OVERWRITE"}} :
     /\ entry = "cli"
     /\ mode = "resume"
     /\ start_step = STEPS[5]
     /\ skip_integrity_check = FALSE
     /\ env = en
     /\ target_episodes = NoTargets
     /\ locked = {}
     /\ files = [UnitFilesAt(Level(4)) EXCEPT ![1]["0_4_calibrated_dialogue.txt"] = cal,
                                              ![1]["0_5_dialogue_turns.json"] = out]
     /\ gfiles = GlobalFilesAt(4)
     /\ prior = PriorOf(files)
     /\ files0 = files
     /\ gfiles0 = gfiles
     /\ pc = "request"
     /\ idx = 0
     /\ status = "none"
     /\ current_step = "none"
     /\ error = "none"
     /\ response = "none"
     /\ message = "none"
     /\ ustate = NoFutures
     /\ results = NoResults
     /\ stage_result = NoStageResult
     /\ invoked = <<>>
     /\ deleted = {}
     /\ written = {}
     /\ faults = 0
     /\ run_no = 1
     /\ server = NoServer
     /\ client = NoClient
     /\ retry = [NoRetry EXCEPT !.stage = 5]

NextFallback ==
  \/ step5_head
  \/ integrated_attempt
  \/ integrated_return
  \/ fallback_processing

SpecFallback == InitFallback /\ [][NextFallback]_vars

\* ------------------------------------------------------------- run outcomes
\* start_index: where the coordinator's loop starts (0: no such stage); the
\* one-shot script always starts at the first stage
StartIndex == IF entry = "full" THEN 1 ELSE StepIndex(start_step)

\* the failed outcome of a run: RunState.status = failed (main.py), success =
\* false (web_api.py), exit code 1 (the two scripts)
RunFailed ==
  CASE entry = "main" -> status = "failed"
    [] entry = "web" -> response = "failure"
    [] OTHER -> response = "exit1"

\* how each coordinator reports that fix_invalid found nothing to repair:
\* status "skipped" (main.py), the no-invalid-files message with exit code 0
\* (run_0_1_to_0_8.py) or with success = true (web_api.py)
ReportsSkipped ==
  /\ message = "no_invalid_files"
  /\ response = CASE entry = "main" -> "skipped"
                  [] entry = "web" -> "success"
                  [] OTHER -> "exit0"

\* the storage is complete and fault-free outside the manifest of stage s
OnlyStageDamaged(s) ==
  /\ \A u \in Units : \A n \in UnitFileNames \ ManifestNames(s) :
        files0[u][n] = UnitFilesAt(Level(NumSteps))[u][n]
  /\ \A n \in GlobalFileNames \ ManifestNames(s) :
        gfiles0[n] = GlobalFilesAt(NumSteps)[n]

\* ------------------------------------------------------------- claims
\* C1: in every run the stages are invoked in ascending sequence order
\* beginning at the requested start stage: the i-th invocation is of stage
\* start + i - 1, so no stage before the start stage is invoked, none is
\* skipped between two invoked stages and none is invoked twice; a start stage
\* outside the table invokes nothing.
C1_AscendingFromStart ==
  /\ StartIndex = 0 => invoked = <<>>
  /\ \A i \in 1..Len(invoked) : invoked[i] = StartIndex + i - 1

\* a run from 0.6 has invoked 0.6, 0.7 and 0.8 and is over
C1_Witness ==
  /\ pc = "done"
  /\ start_step = "0.6"
  /\ invoked = <<6, 7, 8>>

\* C2: if a stage's outcome is a failure (its run() returned a failing status
\* or raised), that stage is the last one invoked in the run, the coordinator
\* is examining it or is finished, and when it is finished the run has the
\* failed outcome.
C2_FailureEndsRun ==
  \A s \in StepIds :
     stage_result[s] \in {"failed", "no_files", "raised"} =>
        /\ invoked # <<>>
        /\ invoked[Len(invoked)] = s
        /\ pc \in {"check", "done"}
        /\ pc = "done" => RunFailed

\* a run from 0.4 without the character graph ended failed at stage 0.4, with
\* 0.5 to 0.8 never invoked
C2_Witness ==
  /\ pc = "done"
  /\ stage_result[4] = "failed"
  /\ invoked = <<4>>
  /\ RunFailed

\* C3: if any unit's result within a stage is a failure, the stage is treated
\* as failed and the run does not go on: the stage with the failing unit is
\* the last one the run invokes, and the finished run has the failed outcome.
C3_UnitFailureFailsStage ==
  \A s \in StepIds :
     (\E u \in Units : ustate[s][u] = "failed") =>
        /\ invoked # <<>>
        /\ invoked[Len(invoked)] = s
        /\ pc = "done" => RunFailed

\* C4: when a unit's work raises or returns failed inside a stage, the stage
\* still returns with every submitted unit at its own terminal result and one
\* result entry per unit, the artifacts of the units that succeeded are in
\* storage, and the failing unit's entry carries the unit id, status failed
\* and an error text.
C4_FailureIsolatedAndRecorded ==
  (/\ pc = "check"
   /\ stage_result[idx] = "completed"
   /\ \E u \in Units : ustate[idx][u] = "failed") =>
     \A u \in Units :
        /\ ustate[idx][u] \in Terminal
        /\ Cardinality({i \in 1..Len(results[idx]) : results[idx][i].unit = u}) = 1
        /\ \A i \in 1..Len(results[idx]) :
              results[idx][i].unit = u =>
                 /\ results[idx][i].status \in {"success", "completed"} =>
                       \A n \in StageOutputs(idx) : <<u, n>> \in written => exists(files[u][n])
                 /\ ustate[idx][u] = "failed" =>
                       /\ results[idx][i].status = "failed"
                       /\ results[idx][i].has_episode_id
                       /\ results[idx][i].error

\* C5: stage barrier: once any work of a stage has begun (a unit of it is
\* running or finished, or its project-level body is executing), every stage
\* invoked before it has returned its aggregate result and has no unit
\* pending or running; in particular the work of two stages never overlaps.
C5_StageBarrier ==
  \A s \in StepIds :
     (\/ \E u \in Units : ustate[s][u] \in {"running"} \cup Terminal
      \/ (pc = "global" /\ idx = s)) =>
        \A j \in 1..Len(invoked) : \A i \in 1..(j - 1) :
           invoked[j] = s =>
              /\ stage_result[invoked[i]] # "none"
              /\ \A v \in Units : ustate[invoked[i]][v] \notin {"pending", "running"}

\* a unit of stage 0.5 is running after the pooled stage 0.4 returned with all
\* of its units finished
C5_Witness ==
  /\ \E u \in Units : ustate[5][u] = "running"
  /\ stage_result[4] = "completed"
  /\ \A v \in Units : ustate[4][v] = "done"

\* C6: bounded concurrency: in a pooled stage the number of units in flight
\* never exceeds the pool size K of that stage, whatever the number M of units.
C6_BoundedConcurrency ==
  \A s \in PooledSteps : Cardinality(InFlight(s)) <= PoolSize(s)

\* a pooled stage with M > K units has K units in flight and one waiting
C6_Witness ==
  \E s \in PooledSteps :
     /\ NumUnits > PoolSize(s)
     /\ Cardinality(InFlight(s)) = PoolSize(s)
     /\ \E u \in Units : ustate[s][u] = "pending"

\* C7: for a stage S, check_invalid_files(S) returns exactly the enumerated
\* units that have at least one required file of S failing the validity
\* check: the list is strictly ascending in enumeration order (so every such
\* unit appears once) and no unit whose required files are all valid is in it.
C7_InvalidSetExact ==
  pc # "request" =>
     LET S == StepIndex(start_step)
         inv == target_episodes
     IN /\ \A i \in 1..Len(inv) : \A j \in 1..Len(inv) : i < j => inv[i] < inv[j]
        /\ {inv[i] : i \in 1..Len(inv)} =
              {u \in Units : \E n \in ManifestNames(S) :
                               FileInvalid(S, n, ReadFile(files0, gfiles0, S, u, n))}

\* stage 0.6: both required files of unit 1 are invalid, those of unit 2 are
\* valid, and the scan returned unit 1 once
C7_Witness ==
  /\ pc # "request"
  /\ start_step = "0.6"
  /\ files0[1]["0_6_script_flow.json"] = "empty"
  /\ files0[1]["0_6_script_draft.md"] = "t40"
  /\ target_episodes = <<1>>

\* C8: in fix_invalid mode, if the invalid set computed for the named stage is
\* empty, the request is over at once: no stage is invoked, nothing is deleted
\* or written, storage is as it was, and the request reports "skipped".
C8_NothingInvalidIsNoOp ==
  (/\ pc # "request"
   /\ mode = "fix_invalid"
   /\ start_step \in StepNames
   /\ check_invalid_files(files0, gfiles0, start_step) = <<>>) =>
     /\ pc = "done"
     /\ invoked = <<>>
     /\ deleted = {}
     /\ written = {}
     /\ files = files0
     /\ gfiles = gfiles0
     /\ ReportsSkipped

\* main.py answered a fix_invalid request for 0.5 over a valid storage
C8_Witness ==
  /\ pc = "done"
  /\ entry = "main"
  /\ mode = "fix_invalid"
  /\ start_step = "0.5"
  /\ check_invalid_files(files0, gfiles0, start_step) = <<>>
  /\ response = "skipped"

\* C9: a fix_invalid run at stage S whose external calls all succeed, over a
\* storage that is complete but for stage-S artifacts, leaves a valid stage-S
\* artifact for every unit of the invalid set, whether the artifact was
\* missing or present but invalid; the stage-S artifacts of every other unit
\* are not written and unchanged, and such a unit would return already_exists
\* if stage S ran again.
C9_FixInvalidRepairsExactlyInvalid ==
  LET S == StepIndex(start_step)
      inv0 == check_invalid_files(files0, gfiles0, start_step)
      Inv0 == {inv0[i] : i \in 1..Len(inv0)}
  IN (/\ mode = "fix_invalid"
      /\ "FORCE_OVERWRITE" \notin env
      /\ start_step \in StepNames
      /\ OnlyStageDamaged(S)
      /\ faults = 0
      /\ stage_result[S] # "none") =>
        \A u \in Units :
           IF u \in Inv0
           THEN ScanFiles(files, gfiles, S, u, 1) = <<>>
           ELSE /\ \A n \in ManifestNames(S) \cap UnitFileNames :
                     files[u][n] = files0[u][n] /\ <<u, n>> \notin written
                /\ ~IsGlobalStep(S) => ShortCircuits(S, files[u], env)

\* C10: a unit's work in a per-unit stage ends in already_exists if and only
\* if the stage's declared artifacts of that unit passed the validity check
\* when the work began and FORCE_OVERWRITE is not set; a unit with a missing
\* or invalid declared artifact is processed.
C10_ShortCircuitIffValid ==
  [][\A s \in StepIds \ {3, 8} : \A u \in Units :
        (ustate[s][u] \notin Terminal /\ ustate'[s][u] \in Terminal) =>
           ((results'[s][Len(results'[s])].status = "already_exists")
              <=> (/\ ScanFiles(files, gfiles, s, u, 1) = <<>>
                   /\ "FORCE_OVERWRITE" \notin env))]_vars

\* ------------------------------------------------------------- C11
\* C11: when a resume request is repeated on the storage its completed first
\* run left, every unit of every stage of the second run answers
\* already_exists, every project-level stage answers already_exists, and no
\* step of the second run calls the external model.
C11_SecondResumeIsNoOp ==
  [][(run_no = 2 /\ mode = "resume") =>
        /\ \A s \in StepIds : \A u \in Units :
              (ustate[s][u] \notin Terminal /\ ustate'[s][u] \in Terminal) =>
                 /\ ~CallsModel(s, files[u], env)
                 /\ results'[s][Len(results'[s])].status = "already_exists"
        /\ (pc = "global" /\ pc' = "check") =>
              /\ ~GlobalCalls(idx, files, gfiles, env)
              /\ stage_result'[idx] = "already_exists"]_vars

\* ------------------------------------------------------------- C12..C16
\* the coordinator has done its deletion and is about to invoke its first stage
AfterDeletion == mode = "force_rerun" /\ pc = "loop" /\ invoked = <<>>

\* name is in the manifest of a stage first..last
DeclaredIn(name, first, last) ==
  \E s \in first..last : \E k \in 1..Len(EXPECTED_FILES[s]) : EXPECTED_FILES[s][k] = name

\* C12: a forced rerun from stage S has removed, before any stage is invoked,
\* every declared artifact of every stage S..N for all targeted units (and the
\* declared project-level artifacts of those stages), when no removal fails.
C12_ForceRerunRemovesDownstream ==
  (AfterDeletion /\ locked = {}) =>
     /\ \A u \in Targets(target_episodes) : \A n \in UnitFileNames :
           DeclaredIn(n, StartIndex, NumSteps) => files[u][n] = "absent"
     /\ \A n \in GlobalFileNames :
           DeclaredIn(n, StartIndex, NumSteps) => gfiles[n] = "absent"

\* C13: in a forced rerun no stage answers already_exists for a targeted
\* unit, and no project-level stage answers already_exists: every stage from
\* the start stage on is recomputed (no removal fails).
C13_ForceRerunRecomputes ==
  (mode = "force_rerun" /\ locked = {}) =>
     /\ \A s \in StepIds : \A k \in 1..Len(results[s]) :
           results[s][k].unit \in Targets(target_episodes)
              => results[s][k].status # "already_exists"
     /\ \A s \in StepIds : stage_result[s] # "already_exists"

\* C14: a forced rerun from stage S through main.py or web_api.py with an
\* explicit unit subset T leaves, when the deletion is done, exactly this
\* storage: the declared per-unit artifacts of stages >= S are gone for the
\* units of T, the declared project-level artifacts of the global stages >= S
\* are gone, and every other file (other units, earlier stages) is as it was
\* when the request arrived.
C14_SubsetDeletionFrame ==
  (AfterDeletion /\ target_episodes # NoTargets /\ locked = {}) =>
     /\ \A u \in Units : \A n \in UnitFileNames :
           files[u][n] =
             IF /\ \E k \in 1..Len(target_episodes) : target_episodes[k] = u
                /\ DeclaredIn(n, StartIndex, NumSteps)
             THEN "absent" ELSE files0[u][n]
     /\ \A n \in GlobalFileNames :
           gfiles[n] = IF DeclaredIn(n, StartIndex, NumSteps)
                       THEN "absent" ELSE gfiles0[n]

\* a forced rerun of unit 1 alone from stage 0.5 has removed that unit's later
\* artifacts; unit 2 still has its own
C14_Witness ==
  /\ AfterDeletion
  /\ target_episodes = <<1>>
  /\ start_step = "0.5"
  /\ files[1]["0_6_script_flow.json"] = "absent"
  /\ files[2]["0_6_script_flow.json"] = "doc"
  /\ files[1]["0_4_calibrated_dialogue.txt"] = "t150"
  /\ gfiles["0_8_complete_screenplay.fdx"] = "absent"

\* C15: the coordinator removes files in one step only: in force_rerun mode,
\* on entering its stage loop, before any stage has been invoked; no later
\* step removes a file, and resume and fix_invalid runs remove nothing.
C15_DeletionOnceBeforeLoop ==
  [][(\/ deleted' # deleted
      \/ \E u \in Units : \E n \in UnitFileNames :
            exists(files[u][n]) /\ ~exists(files'[u][n])
      \/ \E n \in GlobalFileNames : exists(gfiles[n]) /\ ~exists(gfiles'[n]))
       => /\ mode = "force_rerun"
          /\ deleted = {}
          /\ invoked = <<>> /\ invoked' = <<>>
          /\ pc \in {"request", "setup"} /\ pc' = "loop"]_vars

\* a forced rerun removed files and has since invoked two stages
C15_Witness ==
  /\ mode = "force_rerun"
  /\ deleted # {}
  /\ Len(invoked) >= 2

\* the files this coordinator's deletion goes after: from the start stage to
\* the last stage, or (command-line coordinator) the start stage alone
LastDeleted == IF entry = "cli" THEN StartIndex ELSE NumSteps

\* C16: when removing a file fails during the force_rerun deletion, the run
\* goes on: every other file the deletion goes after is still removed, the
\* file that could not be removed is as it was, and the stage loop starts at
\* the start stage.
C16_DeletionFailureTolerated ==
  (AfterDeletion /\ locked # {}) =>
     /\ idx = StepIndex(start_step)
     /\ \A u \in Targets(target_episodes) : \A n \in UnitFileNames :
           DeclaredIn(n, StartIndex, LastDeleted) =>
              files[u][n] = IF <<u, n>> \in locked THEN files0[u][n] ELSE "absent"
     /\ \A n \in GlobalFileNames :
           DeclaredIn(n, StartIndex, LastDeleted) =>
              gfiles[n] = IF <<0, n>> \in locked THEN gfiles0[n] ELSE "absent"

\* the clue file of unit 1 could not be removed; the deletion went on to the
\* other files and the loop is about to start at stage 0.2
C16_Witness ==
  /\ AfterDeletion
  /\ locked = {<<1, "0_2_clues.json">>}
  /\ files[1]["0_2_clues.json"] = "doc"
  /\ <<2, "0_2_clues.json">> \in deleted
  /\ <<1, "0_7_script.stmf">> \in deleted
  /\ idx = 2

\* ------------------------------------------------------------- C17..C20
\* C17: the status of a run of main.py changes only from unset to running,
\* when the background task starts, and from running to completed or failed;
\* a completed or failed status is never changed again, and a stage is
\* invoked only while the status is running.
C17_StatusTransitions ==
  [][/\ status' # status =>
          \/ status = "none" /\ status' = "running" /\ pc = "queued"
          \/ status = "running" /\ status' \in {"completed", "failed"}
     /\ (entry = "main" /\ invoked' # invoked) => status = "running"]_vars

\* a run of main.py failed in its second stage
C17_Witness ==
  /\ entry = "main"
  /\ status = "failed"
  /\ Len(invoked) = 2
  /\ pc = "done"

\* C18: when a run of main.py has failed in a stage, the error field holds the
\* error payload that stage returned.
C18_ErrorIsStagePayload ==
  (entry = "main" /\ status = "failed" /\ invoked # <<>>) =>
     error = StagePayload(invoked[Len(invoked)],
                          stage_result[invoked[Len(invoked)]])

\* C19: while the status is running, the error field is unset, current_step
\* is unset until the first stage is invoked and from then on names the stage
\* invoked last, and the stages invoked so far are in ascending order (so
\* current_step only moves forward).
C19_CurrentStepTracksLoop ==
  status = "running" =>
     /\ error = "none"
     /\ current_step = IF invoked = <<>> THEN "none"
                       ELSE STEPS[invoked[Len(invoked)]]
     /\ \A i \in 1..Len(invoked) : \A j \in 1..Len(invoked) :
           i < j => invoked[i] < invoked[j]

\* the run is in its second stage, 0.3, and says so
C19_Witness ==
  /\ status = "running"
  /\ invoked = <<2, 3>>
  /\ current_step = "0.3"
  /\ pc = "global"

\* C20: a run whose stages all succeeded ends completed whether or not its
\* report could be written: status completed (main.py), exit code 0
\* (run_0_1_to_0_8.py), success (web_api.py).
C20_ReportFailureHarmless ==
  (pc = "done" /\ message \in {"completed", "report_failed"}) =>
     CASE entry = "main" -> status = "completed"
       [] entry = "web" -> response = "success"
       [] OTHER -> response = "exit0"

\* the report of a command-line run could not be written; the exit code is 0
C20_Witness ==
  /\ pc = "done"
  /\ message = "report_failed"
  /\ entry = "cli"
  /\ response = "exit0"
  /\ Len(invoked) >= 1

\* ------------------------------------------------------------- C21
\* the file check that follows _fail in run_0_1_to_0_8.py and web_api.py
\* passes, or is not made
IntegrityPasses ==
  (entry \in {"cli", "web"} /\ ~skip_integrity_check)
     => check_file_integrity(entry, files, gfiles, idx)

\* C21: when a stage hands back an aggregate result, a status of success,
\* already_exists, completed or skipped lets the run go on (to the next stage,
\* or to its successful end after the last one), and every other status
\* (failed, no_files, no status at all) ends the run as failed at that stage.
C21_NonFailingStatuses ==
  [][(pc = "check" /\ IntegrityPasses) =>
        IF stage_result[idx] \in {"success", "already_exists", "completed", "skipped"}
        THEN \/ pc' = "loop" /\ idx' = idx + 1
             \/ idx = NumSteps /\ pc' = "report"
             \/ idx = NumSteps /\ pc' = "done" /\ response' = "exit0"
        ELSE /\ pc' = "done"
             /\ CASE entry = "main" -> status' = "failed"
                  [] entry = "web" -> response' = "failure"
                  [] OTHER -> response' = "exit1"]_vars

\* ------------------------------------------------------------- C22
\* C22: the scan of a fix_invalid request marks a unit invalid exactly when
\* one of its required files is invalid by the specified rule: missing;
\* unparsable JSON (the request is still answered); empty JSON; for stage 0.5
\* a document without turns; a text file under the 100-byte floor. A text file
\* of 100 bytes or more and any other parsed JSON are valid.
C22_ValidityRule ==
  pc # "request" =>
     LET S == StepIndex(start_step)
         SpecifiedInvalid(name, c) ==
           \/ c = "absent"
           \/ /\ name \in JsonFileNames
              /\ \/ c = "unparsable"
                 \/ c = "empty"
                 \/ S = 5 /\ c = "stub"
           \/ /\ name \notin JsonFileNames
              /\ c \in {"t0", "t40", "t99"}
         bad == {u \in Units : \E n \in ManifestNames(S) :
                   SpecifiedInvalid(n, ReadFile(files0, gfiles0, S, u, n))}
     IN IF bad = {}
        THEN message = "no_invalid_files" /\ pc = "done"
        ELSE /\ {target_episodes[i] : i \in 1..Len(target_episodes)} = bad
             /\ response # "skipped"
             /\ message # "no_invalid_files"

\* a script of exactly 100 bytes was scanned and found valid: nothing to fix
C22_Witness ==
  /\ pc = "done"
  /\ start_step = "0.7"
  /\ files0[1]["0_7_script.stmf"] = "t100"
  /\ message = "no_invalid_files"

\* ------------------------------------------------------------- C23
\* C23: a unit of stage 0.1 or 0.2 whose external call failed or was unusable
\* on every attempt of its retry loop, the two fallback attempts included,
\* returns status failed, never success.
C23_ExhaustionIsFailure ==
  LET Exhausted == /\ Len(retry.outcomes) = 5
                   /\ \A k \in 1..5 : retry.outcomes[k] # "usable"
  IN (Exhausted /\ retry.status # "none") => retry.status = "failed"

\* ------------------------------------------------------------- C24
\* the artifact of the stage before that a unit's work in stage s reads
Upstream(s) ==
  CASE s = 2 -> "0_1_timed_dialogue.srt"
    [] s = 4 -> "0_1_timed_dialogue.srt"
    [] s = 5 -> "0_4_calibrated_dialogue.txt"
    [] s = 6 -> "0_5_dialogue_turns.json"
    [] s = 7 -> "0_6_script_flow.json"

\* C24: when a stage processes a unit (no short-circuit) whose upstream
\* artifact is absent, the unit's entry is failed, the external model is not
\* called and the unit's files are left as they were; and the merge stage,
\* finding no script of any unit, fails without writing.
C24_MissingInputFailsFast ==
  [][/\ \A s \in {2, 4, 5, 6, 7} : \A u \in Units :
          (/\ ustate[s][u] \notin Terminal
           /\ ustate'[s][u] \in Terminal
           /\ ~exists(files[u][Upstream(s)])
           /\ ~ShortCircuits(s, files[u], env)) =>
              /\ results'[s][Len(results'[s])].status = "failed"
              /\ ~CallsModel(s, files[u], env)
              /\ files'[u] = files[u]
     /\ (/\ pc = "global" /\ idx = 8 /\ pc' = "check"
         /\ \A u \in Units : ~exists(files[u]["0_7_script.stmf"])
         /\ \E n \in ManifestNames(8) : ~exists(gfiles[n])) =>
            /\ _fail(stage_result'[8])
            /\ gfiles' = gfiles]_vars

\* ------------------------------------------------------------- C25
\* C25: when a per-unit stage hands back its aggregate result, the result list
\* has exactly one entry for each enumerated unit, and every entry names its
\* unit and carries one terminal status.
C25_OneEntryPerUnit ==
  (pc = "check" /\ ~IsGlobalStep(idx) /\ stage_result[idx] = "completed") =>
     /\ Len(results[idx]) = Cardinality(Units)
     /\ \A u \in Units : \E k \in 1..Len(results[idx]) : results[idx][k].unit = u
     /\ \A k \in 1..Len(results[idx]) :
           /\ results[idx][k].has_episode_id
           /\ results[idx][k].status \in {"success", "completed", "already_exists", "failed"}

\* ------------------------------------------------------------- C26
\* C26: stage 0.2 takes its units one at a time in ascending order; what a
\* unit is given is the prior as saved, which has in it every earlier unit of
\* this run that has a readable clue file; no unit of the stage is ever in a
\* pool worker; and the prior file has had no writer but the coordinating
\* thread.
C26_PriorSerialInOrder ==
  /\ \A j \in 1..Len(prior.order) : \A k \in 1..Len(prior.order) :
        j < k =>
          /\ prior.order[j] < prior.order[k]
          /\ files[prior.order[j]]["0_2_clues.json"] \in {"empty", "stub", "doc"}
                => prior.order[j] \in prior.givens[k].mem
  /\ \A k \in 1..Len(prior.givens) : prior.givens[k].mem = prior.givens[k].file
  /\ \A u \in Units : ustate[2][u] # "running"
  /\ prior.writers \subseteq {"caller"}

\* unit 2 of stage 0.2 was given a prior with unit 1 merged in this run
C26_Witness ==
  /\ prior.order = <<1, 2>>
  /\ prior.givens[1].mem = {}
  /\ prior.givens[2].mem = {1}
  /\ <<1, "0_2_clues.json">> \in written
  /\ prior.file = {1, 2}

\* ------------------------------------------------------------- C27
\* C27: while a pooled stage runs, its pool has the configured size (at least
\* 1), so no more units than that are in its workers at one time.
C27_PoolSizeIsConfigured ==
  LET ConfiguredSize == IF ConfiguredWorkers < 1 THEN 1 ELSE ConfiguredWorkers
  IN \A s \in PooledSteps :
        (pc = "pool" /\ idx = s) =>
           /\ PoolSize(s) = ConfiguredSize
           /\ PoolSize(s) >= 1
           /\ Cardinality(InFlight(s)) <= ConfiguredSize

\* ------------------------------------------------------------- C28
\* C28: whenever a run writes an artifact of stage k for a unit (or for the
\* project), no artifact of a later stage of that unit (or of the project) has
\* been written in this run up to and including that step: within a run every
\* later-stage artifact of a unit is written strictly after its earlier-stage
\* artifacts.
C28_WriteOrderFollowsStages ==
  [][\A p \in written' \ written :
        \A q \in written' :
           (q[1] = p[1] \/ q[1] = 0 \/ p[1] = 0) => StageOf(q[2]) <= StageOf(p[2])]_vars

\* one run wrote unit 1's artifacts of the stages 0.4, 0.5, 0.6 and 0.7 and
\* the merged script
C28_Witness ==
  /\ pc = "done"
  /\ {<<1, "0_4_calibrated_dialogue.txt">>, <<1, "0_5_dialogue_turns.json">>,
      <<1, "0_6_script_flow.json">>, <<1, "0_7_script.stmf">>,
      <<0, "0_8_merged_script.stmf">>} \subseteq written

\* ------------------------------------------------------------- rerun mode
\* requests in rerun mode: the interactive command line always gives start
\* step 0.1 (choice 1), web_api.py takes the start step of the request; the
\* storage is what earlier runs completed through some stage left
InitRerun ==
  \E ent \in {"cli", "web"} :
  \E st \in StepNames :
  \E k \in 0..NumSteps :
     /\ ent = "cli" => st = "0.1"
     /\ InitRequestOn(ent, "rerun", st, FALSE, {}, UnitFilesAt(Level(k)),
                      GlobalFilesAt(k), NoTargets, {})

NextRerun ==
  \/ cli_main
  \/ web_run_pipeline
  \/ begin_stage
  \/ Pool
  \/ SerialUnit
  \/ StageReturn
  \/ GlobalStage
  \/ after_stage
  \/ generate_report

SpecRerun == InitRerun /\ [][NextRerun]_vars

\* ------------------------------------------------------------- C29
\* C29: a run in rerun mode starts its stages at 0.1, no unit of any stage
\* returns already_exists and no project-level stage answers already_exists.
C29_RerunReexecutesAll ==
  mode = "rerun" =>
     /\ invoked # <<>> => invoked[1] = 1
     /\ \A s \in StepIds : \A k \in 1..Len(results[s]) :
           results[s][k].status # "already_exists"
     /\ \A s \in StepIds : stage_result[s] # "already_exists"

InitLive ==
  \E md \in {"resume", "force_rerun", "fix_invalid"} :
  \E st \in StepNames \cup {"bad"} :
  \E en \in Envs :
  \E sto \in Storages(st) :
     /\ "DEBUG_DRAFT" \notin en
     /\ "FORCE_OVERWRITE" \in en => md # "force_rerun"
     /\ InitRequest("main", md, st, FALSE, en, sto.f, sto.g)

NextLive ==
  \/ start_pipeline
  \/ run_pipeline
  \/ run_pipeline_setup
  \/ begin_stage
  \/ Pool
  \/ SerialUnit
  \/ StageReturn
  \/ GlobalStage
  \/ after_stage
  \/ generate_report

\* the process is not terminated: the background task, the pool workers and
\* every stage call go on until they return or raise
SpecLive == InitLive /\ [][NextLive]_vars /\ WF_vars(NextLive)

\* ------------------------------------------------------------- C31
\* C31: with no process termination, every run that was marked running
\* eventually is completed or failed.
C31_RunLeavesRunning ==
  (status = "running") ~> (status \in {"completed", "failed"})

\* a stage call raised an exception and the run went from running to failed
C31_Witness ==
  /\ pc = "done"
  /\ status = "failed"
  /\ idx \in StepIds
  /\ stage_result[idx] = "raised"

\* ------------------------------------------------------------- C32
\* C32: a unit of stage 0.5 that got past its input checks is failed only
\* after the fallback processing was tried and gave no turns, and the fallback
\* is tried whenever the integrated processing ended without an accepted
\* response, by rejected outputs or by exceptions.
C32_FallbackBeforeFailure ==
  retry.stage = 5 =>
     /\ (retry.status = "failed" /\ retry.error \notin {"missing_input", "empty_input"})
           => retry.fallback = "no_turns"
     /\ (/\ retry.status # "none"
         /\ Len(retry.outcomes) = integrated_max_retries
         /\ retry.outcomes[Len(retry.outcomes)] # "usable")
           => retry.fallback # "none"

\* ------------------------------------------------------------- several requests
\* everything that belongs to the one run the other actions follow
the_run ==
  <<entry, mode, start_step, skip_integrity_check, env, target_episodes,
    files, gfiles, files0, gfiles0, pc, idx, status, current_step, error,
    response, message, ustate, results, stage_result, invoked, deleted,
    written, faults, locked, run_no, retry, prior>>

\* run_pipeline is an `async def` that never awaits: while it runs as a
\* background task the event loop does nothing else
LoopFree == \A q \in Requests : server.run[q] # "running"

\* the event loop takes a POST /run and hands start_pipeline to a pool thread
receive_request(r) ==
  /\ server.handler[r] = "none"
  /\ LoopFree
  /\ server' = [server EXCEPT !.handler[r] = "in_thread"]
  /\ UNCHANGED <<the_run, client>>

\* start_pipeline in its thread: 400 if the collection's status is running;
\* else "skipped" (fix_invalid with nothing invalid) or add_task and "Pipeline
\* started"
handle_request(r) ==
  /\ server.handler[r] = "in_thread"
  /\ IF server.status = "running"
     THEN server' = [server EXCEPT !.handler[r] = "http400"]
     ELSE \E ans \in {"started", "skipped"} :
            server' = [server EXCEPT !.handler[r] = ans,
                                     !.run[r] = IF ans = "started" THEN "queued" ELSE @]
  /\ UNCHANGED <<the_run, client>>

\* the response is sent and the background task begins:
\* PIPELINE_STATES[collection] = {"status": "running", ...}
task_begins(r) ==
  /\ server.run[r] = "queued"
  /\ LoopFree
  /\ server' = [server EXCEPT !.run[r] = "running", !.status = "running"]
  /\ UNCHANGED <<the_run, client>>

\* the run ends: status completed, or failed in the except branch
task_ends(r) ==
  /\ server.run[r] = "running"
  /\ \E o \in {"completed", "failed"} :
       server' = [server EXCEPT !.run[r] = o, !.status = o]
  /\ UNCHANGED <<the_run, client>>

InitServe ==
  InitRequestOn("main", "resume", "0.1", FALSE, {}, UnitFilesAt(Level(NumSteps)),
                GlobalFilesAt(NumSteps), NoTargets, {})

NextServe ==
  \E r \in Requests :
     receive_request(r) \/ handle_request(r) \/ task_begins(r) \/ task_ends(r)

SpecServe == InitServe /\ [][NextServe]_vars

\* ------------------------------------------------------------- C33
\* C33: of the runs of one collection that POST /run answered "Pipeline
\* started" and that have not reached completed or failed, there is at most
\* one at any time; and no two run at the same time.
C33_OneActiveRun ==
  /\ Cardinality({r \in Requests : server.run[r] \in {"queued", "running"}}) <= 1
  /\ Cardinality({r \in Requests : server.run[r] = "running"}) <= 1

\* ------------------------------------------------------------- C34
\* C34: when a run has ended in its completed outcome, every artifact the
\* manifest declares for a stage the run invoked is there and valid by the
\* validity scan, for every unit (for the project, for stages 0.3 and 0.8).
C34_CompletedMeansValid ==
  FirstRunCompleted =>
     \A k \in 1..Len(invoked) : \A u \in Units :
        \A j \in 1..Len(EXPECTED_FILES[invoked[k]]) :
           ~FileInvalid(invoked[k], EXPECTED_FILES[invoked[k]][j],
                        ReadFile(files, gfiles, invoked[k], u,
                                 EXPECTED_FILES[invoked[k]][j]))

\* ------------------------------------------------------------- the shared client
\* the workers of a pooled stage call generate_content of the one client the
\* stage made in PipelineStep.__init__; `x += y` on token_usage is a read of
\* the entry, then the addition, then a write: threads can interleave between

\* the client's call came back to worker u: with usage_metadata of n tokens, or
\* without (0: nothing is counted)
call_returns(u) ==
  /\ client.worker[u].at = "idle"
  /\ \E n \in 0..MaxUsage :
       client' = IF n = 0
                 THEN [client EXCEPT !.worker[u].at = "done"]
                 ELSE [client EXCEPT !.worker[u].at = "responded",
                                     !.worker[u].usage = n,
                                     !.responses = Append(@, n)]
  /\ UNCHANGED <<the_run, server>>

\* self.token_usage['total_tokens'] += ...: the read
load_tokens(u) ==
  /\ client.worker[u].at = "responded"
  /\ client' = [client EXCEPT !.worker[u].reg = client.token_usage.total_tokens,
                              !.worker[u].at = "tokens_read"]
  /\ UNCHANGED <<the_run, server>>

\* self.token_usage['total_tokens'] += ...: the write
store_tokens(u) ==
  /\ client.worker[u].at = "tokens_read"
  /\ client' = [client EXCEPT !.token_usage.total_tokens =
                                  client.worker[u].reg + client.worker[u].usage,
                              !.worker[u].at = "tokens_written"]
  /\ UNCHANGED <<the_run, server>>

\* self.token_usage['call_count'] += 1: the read
load_count(u) ==
  /\ client.worker[u].at = "tokens_written"
  /\ client' = [client EXCEPT !.worker[u].reg = client.token_usage.call_count,
                              !.worker[u].at = "count_read"]
  /\ UNCHANGED <<the_run, server>>

\* self.token_usage['call_count'] += 1: the write
store_count(u) ==
  /\ client.worker[u].at = "count_read"
  /\ client' = [client EXCEPT !.token_usage.call_count = client.worker[u].reg + 1,
                              !.worker[u].at = "done"]
  /\ UNCHANGED <<the_run, server>>

NextTokens ==
  \E u \in Units :
     \/ call_returns(u)
     \/ load_tokens(u)
     \/ store_tokens(u)
     \/ load_count(u)
     \/ store_count(u)

\* a pooled stage has handed one unit to each of its workers
SpecTokens == InitServe /\ [][NextTokens]_vars

RECURSIVE SumSeq(_)
SumSeq(s) == IF s = <<>> THEN 0 ELSE Head(s) + SumSeq(Tail(s))

\* ------------------------------------------------------------- C35
\* C35: when every worker of the stage is through generate_content,
\* call_count is the number of responses that came with usage data and
\* total_tokens is the sum of their token counts.
C35_CountersExact ==
  (\A u \in Units : client.worker[u].at = "done") =>
     /\ client.token_usage.call_count = Len(client.responses)
     /\ client.token_usage.total_tokens = SumSeq(client.responses)

\* ------------------------------------------------------------- C36
\* C36: when stage 0.2 has run over a storage in which every unit had its
\* clues and every unit returned already_exists, the character entries of the
\* prior are what they were when the request arrived: the same sources and
\* the same evidence counts.
C36_RerunKeepsPrior ==
  (/\ pc = "check" /\ idx = 2
   /\ Len(results[2]) = NumUnits
   /\ \A k \in 1..Len(results[2]) : results[2][k].status = "already_exists") =>
      /\ prior.file = PriorOf(files0).file
      /\ prior.evidence = PriorOf(files0).evidence

\* ------------------------------------------------------------- C37
\* C37: when stage 0.3 has produced its graph in a run in which stage 0.2
\* wrote the clues of some unit, the aggregation of the clues it read was made
\* in this run too, after those clues: it is not one left by an earlier run.
C37_AlignmentUsesCurrentClues ==
  (/\ pc = "check" /\ idx = 3
   /\ stage_result[3] = "completed"
   /\ \E u \in Units : <<u, "0_2_clues.json">> \in written) =>
      <<0, "0_3_preprocessed_data.json">> \in written

\* ------------------------------------------------------------- C38
\* C38: a request whose start stage is not one of the eight stages ends as an
\* error in every mode: no stage was invoked, nothing was deleted, and the
\* answer is an error (exit code 1, HTTP 400, or the run state failed), never
\* a success or a skip.
C38_InvalidStartRejected ==
  (start_step \notin StepNames /\ entry # "full") =>
     /\ invoked = <<>>
     /\ deleted = {}
     /\ pc \in {"request", "queued", "setup", "done"}
     /\ pc = "done" =>
          /\ response \notin {"exit0", "success", "skipped"}
          /\ response \in {"exit1", "http400"} \/ status = "failed"

\* ------------------------------------------------------------- C39
\* C39: under a coordinator with the integrity check on, a stage that returned
\* a non-failing status and whose declared artifacts are all there and valid,
\* for every unit, passes: the check does not fail it.
C39_IntegrityPassesWrittenStage ==
  (/\ pc = "check"
   /\ entry \in {"cli", "web"}
   /\ ~skip_integrity_check
   /\ stage_result[idx] # "raised"
   /\ ~_fail(stage_result[idx])
   /\ \A u \in Units : \A j \in 1..Len(EXPECTED_FILES[idx]) :
         ~FileInvalid(idx, EXPECTED_FILES[idx][j],
                      ReadFile(files, gfiles, idx, u, EXPECTED_FILES[idx][j])))
     => StepSucceeded

====
